---- MODULE Spec2Model ----
(***************************************************************************)
(* Luau::decompile: the bytecode reader, the container decoder, the        *)
(* per-prototype lifter (register map, fringe, flag conditions) and the    *)
(* orchestrator that prepends the advisory comment.                        *)
(*                                                                         *)
(* The input byte vector is revealed lazily: `bytecode` holds the bytes    *)
(* the reader has consumed in bounds so far, `eof` says that a read has    *)
(* hit the end of the vector.  Every behaviour is the decode of one input. *)
(***************************************************************************)
EXTENDS Integers, Sequences, FiniteSets, TLC

(***************************************************************************)
(* Bounds of the explored inputs.                                          *)
(***************************************************************************)
MaxBytes == 40      \* bytes of input consumed in bounds
MaxLifted == 55     \* the same for the inputs whose code is lifted whole
MaxOob == 1         \* reads past the end that return a value
MaxStrings == 1     \* stringCount
MaxProtos == 2      \* protoCount
MaxInstr == 2       \* instrCount
MaxConsts == 2      \* constCount
MaxLines == 2       \* lineInfoCount

(***************************************************************************)
(* enum class OpCode : byte, in declaration order (Nop = 0).               *)
(***************************************************************************)
OpCodeNames ==
    << "Nop", "SaveCode", "LoadNil", "LoadBool", "LoadShort", "LoadConst",
       "Move", "GetGlobal", "SetGlobal", "GetUpvalue", "SetUpvalue",
       "SaveRegisters", "GetGlobalConst", "GetTableIndex", "SetTableIndex",
       "GetTableIndexConstant", "SetTableIndexConstant", "GetTableIndexByte",
       "SetTableIndexByte", "Closure", "Self", "Call", "Return", "Jump",
       "LoopJump", "Test", "NotTest", "Equal", "LesserOrEqual", "LesserThan",
       "NotEqual", "GreaterThan", "GreaterOrEqual", "Add", "Sub", "Mul", "Div",
       "Mod", "Pow", "AddByte", "SubByte", "MulByte", "DivByte", "ModByte",
       "PowByte", "Or", "And", "OrByte", "AndByte", "Concat", "Not",
       "UnaryMinus", "Len", "NewTable", "NewTableConst", "SetList", "ForPrep",
       "ForLoop", "TForLoop", "LoopJumpIPairs", "TForLoopIPairs",
       "LoopJumpNext", "TForLoopNext", "LoadVarargs", "ClearStack",
       "ClearStackFull", "LoadConstLarge", "FarJump", "BuiltinCall" >>

OPCODE_END == Len(OpCodeNames)

\* The numeric value of an enumerator.
OpCodeOf == [n \in {OpCodeNames[k] : k \in 1..OPCODE_END} |->
                (CHOOSE k \in 1..OPCODE_END : OpCodeNames[k] = n) - 1]

Op(name) == OpCodeOf[name]

\* The enumerator of a value of the op field; values >= OPCODE_END have none.
OpName(op) == IF op \in 0..(OPCODE_END - 1) THEN OpCodeNames[op + 1] ELSE "?"

Bytes == 0..255

(***************************************************************************)
(* struct Instruction: op, a, b, c are the four bytes of the word, least   *)
(* significant first; b_x, s_b_x and encoded overlay them.                 *)
(***************************************************************************)
Instr(bs) == [op |-> bs[1], a |-> bs[2], b |-> bs[3], c |-> bs[4]]

b_x(w) == w.b + 256 * w.c

s_b_x(w) == IF b_x(w) >= 32768 THEN b_x(w) - 65536 ELSE b_x(w)

encoded(w) == w.op + 256 * w.a + 65536 * w.b + 16777216 * w.c

(***************************************************************************)
(* Decompiler::getClientOp and generateOpConvTable.                        *)
(***************************************************************************)
getClientOp_odd(op) == (226 * op) % 256

getClientOp(op) == (227 * op) % 256

\* The table after the loop over i = 0 .. OPCODE_END - 1: operator[] of the
\* hash map inserts or overwrites, so a key holds the last i assigned to it.
generateOpConvTable ==
    [key \in {getClientOp(i) : i \in 0..(OPCODE_END - 1)} |->
        CHOOSE i \in 0..(OPCODE_END - 1) :
            /\ getClientOp(i) = key
            /\ \A j \in 0..(OPCODE_END - 1) : getClientOp(j) = key => j <= i]

(***************************************************************************)
(* BytecodeReader::readInt over the bytes it consumes.  The accumulator    *)
(* is a 32-bit int and the 7-bit groups occupy disjoint bits, so |= adds.  *)
(* The fifth group is shifted by 28: its low four bits land in bits 28..31 *)
(* (bit 31 is the sign), its high three are shifted out.  A sixth group    *)
(* would be shifted by 35, which the language leaves undefined; the        *)
(* varints explored have at most five bytes.                               *)
(***************************************************************************)
RECURSIVE Pow2(_)
Pow2(n) == IF n = 0 THEN 1 ELSE 2 * Pow2(n - 1)

Shifted(group, i) ==
    IF i < 28 THEN group * Pow2(i)
    ELSE IF i = 28 THEN (IF group % 16 >= 8 THEN (group % 16) - 16 ELSE group % 16) * Pow2(28)
    ELSE 0

\* [res, n]: the value and the number of bytes consumed from bs; n = 0 when
\* bs ends while the continuation bit is still set.
RECURSIVE readIntLoop(_, _, _, _)
readIntLoop(bs, k, res, i) ==
    IF k > Len(bs) THEN [res |-> res, n |-> 0]
    ELSE LET readByte == bs[k]
             res2 == res + Shifted(readByte % 128, i)
         IN IF readByte >= 128 THEN readIntLoop(bs, k + 1, res2, i + 7)
            ELSE [res |-> res2, n |-> k]

readInt(bs) == readIntLoop(bs, 1, 0, 0)

Complete(chunk) == readInt(chunk).n = Len(chunk) /\ Len(chunk) <= 5

\* The proper prefixes of the chunks of D: where the input can end inside a varint.
Prefixes(D) == UNION {{SubSeq(c, 1, n) : n \in 0..(Len(c) - 1)} : c \in D}

(***************************************************************************)
(* State.                                                                  *)
(***************************************************************************)
VARIABLES
    prof,               \* the class of inputs this behaviour draws from
    bytecode,           \* the input bytes consumed in bounds
    pointer,            \* BytecodeReader::pointer
    eof,                \* a read has reached bytecode.size()
    oob,                \* number of reads past the end that returned a value
    pc,                 \* position in operator() / decompile
    status,             \* "running", "returned", "threw", "crashed"
    err,                \* what() of the exception that left decompile
    opConversionTable,
    flagged,
    fired,              \* history: number of flag conditions that fired
    stringTable,
    protos,
    p,                  \* the prototype being decoded
    cnt,                \* the loop counters and locals of operator()
    frames,             \* the activations of the lifter
    alloc,              \* number of AstLocal objects allocated
    nodes,              \* number of AstStat objects allocated
    hist,               \* history: the last optimize, LoopJump and fringe closure
    wild,               \* the tree holds a pointer that was never valid
    buff                \* the output stream

vars == << prof, bytecode, pointer, eof, oob, pc, status, err,
           opConversionTable, flagged, fired, stringTable, protos, p, cnt,
           frames, alloc, nodes, hist, wild, buff >>

\* The state of operator() as one record, so that each step is a function.
Cur == [pc |-> pc, status |-> status, err |-> err,
        opConversionTable |-> opConversionTable, flagged |-> flagged,
        fired |-> fired, stringTable |-> stringTable, protos |-> protos,
        p |-> p, cnt |-> cnt, frames |-> frames, alloc |-> alloc, nodes |-> nodes,
        hist |-> hist, wild |-> wild, buff |-> buff]

running == status = "running"

\* An exception leaves decompile (the catch block rethrows it).
Thrown(s, what) == [s EXCEPT !.status = "threw", !.err = what]

\* Undefined behaviour that ends the process.
Crashed(s) == [s EXCEPT !.status = "crashed"]

\* A loop that never ends.
Hung(s) == [s EXCEPT !.status = "hung"]

\* Decompiler::setFlagged
setFlagged_noop(s) == [s EXCEPT !.fired = TRUE]

setFlagged(s) == [s EXCEPT !.flagged = TRUE, !.fired = TRUE]

(***************************************************************************)
(* The reader.  A read returns a set of outcomes: the bytes the input      *)
(* holds there (drawn from D), or, when the input ends before or inside    *)
(* the read, what the unchecked dereference past the end of the vector     *)
(* can do: end the process, or return whatever the memory holds (drawn     *)
(* from G).                                                                *)
(***************************************************************************)
GarbageBytes == {0, 1}

\* The classes of input whose code is lifted without a missing line or
\* constant, and the length up to which an input of each class is explored.
Lifted == {"fringe", "tail", "closure", "split"}

\* Those of them that hold a child prototype and the parent that closes over it.
Nested == {"closure", "split"}

Limit == IF prof \in Lifted THEN MaxLifted ELSE MaxBytes

Garbage(w) == {[k \in 1..w |-> g] : g \in GarbageBytes}

\* template<typename T> T read(), sizeof(T) = w
read(w, D) ==
    (IF ~eof
     THEN {[ok |-> TRUE, v |-> s, bytes |-> s, adv |-> w, eof |-> FALSE, g |-> 0] :
             s \in {s \in D : Len(bytecode) + w <= Limit}}
     ELSE {})
    \cup {[ok |-> FALSE, v |-> << >>, bytes |-> << >>, adv |-> w, eof |-> TRUE, g |-> 0]}
    \cup (IF oob < MaxOob
          THEN {[ok |-> TRUE, v |-> s, bytes |-> << >>, adv |-> w, eof |-> TRUE, g |-> 1] :
                  s \in Garbage(w)}
          ELSE {})

\* int readInt(); D is a set of complete varints
readVarint(D) ==
    LET pres == IF eof THEN {<< >>}
                ELSE {q \in Prefixes(D) : Len(bytecode) + Len(q) <= Limit}
    IN (IF ~eof
        THEN {[ok |-> TRUE, v |-> readInt(c).res, bytes |-> c, adv |-> Len(c),
               eof |-> FALSE, g |-> 0] :
                c \in {c \in D : Complete(c) /\ Len(bytecode) + Len(c) <= Limit}}
        ELSE {})
       \cup {[ok |-> FALSE, v |-> 0, bytes |-> q, adv |-> Len(q) + 1, eof |-> TRUE,
              g |-> 0] : q \in pres}
       \cup (IF oob < MaxOob
             THEN {[ok |-> TRUE, v |-> readInt(x[1] \o x[2]).res, bytes |-> x[1],
                    adv |-> Len(x[1]) + 1, eof |-> TRUE, g |-> 1] :
                     x \in pres \X Garbage(1)}
             ELSE {})

\* template<typename T> const T* read(size_t c), sizeof(T) = 1: no byte is
\* dereferenced; the pointer it returns dangles when the input is shorter.
readView(c, D) ==
    (IF ~eof
     THEN {[ok |-> TRUE, v |-> [size |-> c, dangling |-> FALSE], bytes |-> s, adv |-> c,
            eof |-> FALSE, g |-> 0] :
             s \in {s \in D : Len(s) = c /\ Len(bytecode) + c <= Limit}}
     ELSE {})
    \cup (IF c > 0 \/ eof
          THEN {[ok |-> TRUE, v |-> [size |-> c, dangling |-> c > 0], bytes |-> << >>,
                 adv |-> c, eof |-> (c > 0 \/ eof), g |-> 0]}
          ELSE {})

\* The reader's state after outcome r, and the decoder's state s.
Commit(r, s) ==
    /\ bytecode' = bytecode \o r.bytes
    /\ pointer' = pointer + r.adv
    /\ eof' = r.eof
    /\ oob' = oob + r.g
    /\ pc' = s.pc
    /\ status' = s.status
    /\ err' = s.err
    /\ opConversionTable' = s.opConversionTable
    /\ flagged' = s.flagged
    /\ fired' = s.fired
    /\ stringTable' = s.stringTable
    /\ protos' = s.protos
    /\ p' = s.p
    /\ cnt' = s.cnt
    /\ frames' = s.frames
    /\ alloc' = s.alloc
    /\ nodes' = s.nodes
    /\ hist' = s.hist
    /\ wild' = s.wild
    /\ buff' = s.buff
    /\ prof' = prof

(***************************************************************************)
(* Decompiler::operator(): the container decoder, one step per read.       *)
(***************************************************************************)
\* std::vector::at: the element at 0-based index i of a signed int converted
\* to size_t, or std::out_of_range.
InRange(seq, i) == i >= 0 /\ i < Len(seq)

\* std::vector::reserve(n) of an int n: a negative n converts to a size
\* above max_size() and throws std::length_error.
ReserveThrows(n) == n < 0

\* new (a) Proto{}
NewProto == [maxRegCount |-> 0, argCount |-> 0, upvalCount |-> 0, isVarArg |-> 0,
             code |-> << >>, constants |-> << >>, children |-> << >>,
             name |-> "absent", lineInfo |-> << >>, args |-> << >>,
             upvalues |-> << >>,
             isMain |-> FALSE]

\* std::string{ (const char*)(bytecode.data() + 1), bytecode.size() - 1 }
ErrorPayload(bytes) == SubSeq(bytes, 2, Len(bytes))

\* std::runtime_error::what(): the message as a C string, which ends at the
\* first zero byte of the std::string it was built from.
what(str) ==
    IF \E k \in 1..Len(str) : str[k] = 0
    THEN SubSeq(str, 1, (CHOOSE k \in 1..Len(str) :
                            str[k] = 0 /\ \A m \in 1..(k - 1) : str[m] # 0) - 1)
    ELSE str

\* flagged = false; generateOpConvTable() (lines 1813-1814)
EnterOperator(s) ==
    [s EXCEPT !.flagged = FALSE, !.fired = FALSE,
              !.opConversionTable = generateOpConvTable]

\* The version byte v (lines 1822-1828).  `rest` is the input after it, which
\* only the v = 0 branch looks at.
AfterVersion(s, v, inBounds, rest) ==
    IF v > 1 THEN Thrown(s, "bytecode version mismatch")
    ELSE IF v = 0
         THEN IF inBounds THEN Thrown(s, what(ErrorPayload(<<v>> \o rest)))
              ELSE Thrown(s, "length_error")   \* size() - 1 wraps on an empty input
    ELSE [s EXCEPT !.pc = "stringCount"]

\* stringCount, stringTable.reserve (lines 1830-1833)
AfterStringCount(s, v) ==
    IF ReserveThrows(v) THEN Thrown(s, "length_error")
    ELSE [s EXCEPT !.cnt.stringCount = v, !.cnt.i = 0,
                   !.pc = IF 0 < v THEN "stringSize" ELSE "protoCount"]

\* stringSize (line 1835)
AfterStringSize(s, v) == [s EXCEPT !.cnt.stringSize = v, !.pc = "string"]

\* read<char>(stringSize); emplace_back; ++i (lines 1836-1837)
AfterString(s, view) ==
    [s EXCEPT !.stringTable = Append(@, view), !.cnt.i = @ + 1,
              !.pc = IF s.cnt.i + 1 < s.cnt.stringCount THEN "stringSize"
                     ELSE "protoCount"]

\* protoCount, protos.reserve, and the head of the prototype loop (1840-1844)
AfterProtoCount(s, v) ==
    IF ReserveThrows(v) THEN Thrown(s, "length_error")
    ELSE [s EXCEPT !.cnt.protoCount = v, !.cnt.i = 0, !.p = NewProto,
                   !.pc = IF 0 < v THEN "maxRegCount" ELSE "mainIndex"]

HeaderFields == <<"maxRegCount", "argCount", "upvalCount", "isVarArg">>

HeaderNext(f) == CASE f = "maxRegCount" -> "argCount"
                   [] f = "argCount" -> "upvalCount"
                   [] f = "upvalCount" -> "isVarArg"
                   [] f = "isVarArg" -> "instrCount"

\* p->maxRegCount .. p->isVarArg (lines 1845-1848)
AfterHeaderByte(s, v) == [s EXCEPT !.p[s.pc] = v, !.pc = HeaderNext(s.pc)]

\* bool studio = false; instrCount; p->code.reserve (lines 1850-1854)
AfterInstrCount(s, v) ==
    IF ReserveThrows(v) THEN Thrown(s, "length_error")
    ELSE [s EXCEPT !.cnt.studio = FALSE, !.cnt.instrCount = v, !.cnt.j = 0,
                   !.pc = IF 0 < v THEN "instr" ELSE "constCount"]

\* The case labels of the switch at lines 1865-1886.
TwoWordOps_short ==
    {"GetGlobal", "SetGlobal", "GetGlobalConst", "GetTableIndexConstant",
     "SetTableIndexConstant", "Self", "Equal", "LesserOrEqual", "LesserThan",
     "NotEqual", "GreaterThan", "GreaterOrEqual", "NewTable", "SetList",
     "TForLoop"}

TwoWordOps ==
    {"GetGlobal", "SetGlobal", "GetGlobalConst", "GetTableIndexConstant",
     "SetTableIndexConstant", "Self", "Equal", "LesserOrEqual", "LesserThan",
     "NotEqual", "GreaterThan", "GreaterOrEqual", "NewTable", "SetList",
     "TForLoop", "LoadConstLarge"}

IsTwoWord(op) == OpName(op) \in TwoWordOps

\* if (j == 0 && instr.op == OpCode::ClearStackFull) studio = true (1857-1860)
StudioAfter(s, rawOp) ==
    s.cnt.studio \/ (s.cnt.j = 0 /\ rawOp = Op("ClearStackFull"))

\* The end of one iteration of the instruction loop: ++j; j < instrCount.
InstrLoopNext(s, j) ==
    [s EXCEPT !.cnt.j = j + 1,
              !.pc = IF j + 1 < s.cnt.instrCount THEN "instr" ELSE "constCount"]

\* One instruction word (lines 1856-1886).  raw and mapped are history:
\* the opcode byte as read, and whether it went through the table.
AfterInstr(s, bs) ==
    LET instr == Instr(bs)
        studio == StudioAfter(s, instr.op)
        s1 == [s EXCEPT !.cnt.studio = studio]
    IN IF ~studio /\ instr.op \notin DOMAIN s.opConversionTable
       THEN Thrown(s1, "out_of_range")
       ELSE LET op == IF studio THEN instr.op ELSE s.opConversionTable[instr.op]
                w == [op |-> op, a |-> instr.a, b |-> instr.b, c |-> instr.c,
                      raw |-> instr.op, mapped |-> ~studio, aux |-> FALSE]
                s2 == [s1 EXCEPT !.p.code = Append(@, w)]
            IN IF IsTwoWord(op)
               THEN [s2 EXCEPT !.cnt.j = @ + 1, !.pc = "aux"]
               ELSE InstrLoopNext(s2, s.cnt.j)

\* ++j; p->code.push_back(reader.read<Instruction>()) (lines 1883-1884)
AfterAux(s, bs) ==
    LET instr == Instr(bs)
        w == [op |-> instr.op, a |-> instr.a, b |-> instr.b, c |-> instr.c,
              raw |-> instr.op, mapped |-> FALSE, aux |-> TRUE]
    IN InstrLoopNext([s EXCEPT !.p.code = Append(@, w)], s.cnt.j)

\* constCount; p->constants.reserve (lines 1889-1891)
AfterConstCount(s, v) ==
    IF ReserveThrows(v) THEN Thrown(s, "length_error")
    ELSE [s EXCEPT !.cnt.constCount = v, !.cnt.j = 0,
                   !.pc = IF 0 < v THEN "const" ELSE "closureCount"]

\* p->constants.push_back(expr); ++j (line 1998)
PushConstant(s, expr) ==
    [s EXCEPT !.p.constants = Append(@, expr), !.cnt.j = @ + 1,
              !.pc = IF s.cnt.j + 1 < s.cnt.constCount THEN "const" ELSE "closureCount"]

\* switch (reader.read<ConstantType>()) (lines 1897-1996), up to the next read
AfterConstTag(s, tag) ==
    CASE tag = 0 -> PushConstant(setFlagged(s), [kind |-> "Nil"])
      [] tag = 1 -> [setFlagged(s) EXCEPT !.pc = "constBool"]
      [] tag = 2 -> [s EXCEPT !.pc = "constNumber"]
      [] tag = 3 -> [s EXCEPT !.pc = "constString"]
      [] tag = 4 -> [s EXCEPT !.pc = "constGlobal"]
      [] tag = 5 -> [s EXCEPT !.pc = "constHash"]
      [] OTHER -> Thrown(s, "unsupported constant type")

AfterConstBool(s, bs) == PushConstant(s, [kind |-> "Bool", value |-> bs[1] # 0])

AfterConstNumber(s, bs) == PushConstant(s, [kind |-> "Number", value |-> bs])

\* What a lookup of string-table index v came to (history, for the last lookup).
Lookup(site, v, result) == [site |-> site, index |-> v, result |-> result]

\* stringTable.at(reader.readInt() - 1); memcpy of the view (lines 1920-1928).
\* The memcpy of a view that dangles past the input is undefined: with
\* survives it copies whatever is there, otherwise the process ends.
AfterConstString(s, v, survives) ==
    IF ~InRange(s.stringTable, v - 1)
    THEN Thrown([s EXCEPT !.cnt.lookup = Lookup("constant", v, "error")], "out_of_range")
    ELSE LET strVal == s.stringTable[v]
             s1 == [s EXCEPT !.cnt.lookup = Lookup("constant", v, "entry")]
         IN IF strVal.dangling /\ ~survives THEN Crashed(s1)
            ELSE PushConstant(s1, [kind |-> "String", value |-> strVal])

\* The packed indices of a ConstantGlobal (lines 1933-1949), taken from the
\* four little-endian bytes of the uint32: v5 is bits 30..31, the indices are
\* bits 20..29, 10..19 and 0..9; -1 is "none".
GlobalIndices(bs) ==
    LET v5 == bs[4] \div 64
    IN << IF v5 # 0 THEN (bs[3] \div 16) + 16 * (bs[4] % 64) ELSE -1,
          IF v5 <= 1 THEN -1 ELSE (bs[2] \div 4) + 64 * (bs[3] % 16),
          IF v5 > 2 THEN bs[1] + 256 * (bs[2] % 4) ELSE -1 >>

\* p->constants.at(index)->as<AstExprConstantString>()->value for each index
\* in use (lines 1951-1981): at() throws; as<>() of a constant of another
\* kind is null and ->value of it is undefined.
AfterConstGlobal(s, bs, survives) ==
    LET idx == GlobalIndices(bs)
        used == <<idx[1]>> \o (IF idx[2] >= 0 THEN <<idx[2]>> ELSE << >>)
                          \o (IF idx[3] >= 0 THEN <<idx[3]>> ELSE << >>)
        bad(k) == ~InRange(s.p.constants, used[k])
        null(k) == s.p.constants[used[k] + 1].kind # "String"
        firstBad == IF \E k \in 1..Len(used) : bad(k) \/ null(k)
                    THEN CHOOSE k \in 1..Len(used) :
                           /\ bad(k) \/ null(k)
                           /\ \A m \in 1..(k - 1) : ~bad(m) /\ ~null(m)
                    ELSE 0
    IN IF firstBad = 0 THEN PushConstant(s, [kind |-> "Global", depth |-> Len(used)])
       ELSE IF bad(firstBad) THEN Thrown(s, "out_of_range")
       ELSE IF survives THEN PushConstant(s, [kind |-> "Global", depth |-> Len(used)])
       ELSE Crashed(s)

\* case ConstantHashTable leaves `expr` unassigned; push_back(expr) at line
\* 1998 then reads an uninitialized pointer: the value is whatever the stack
\* held, or a checked build stops at the read.
PushUninit(s, survives) ==
    IF survives THEN PushConstant(s, [kind |-> "Uninit"]) ELSE Crashed(s)

\* hashSize (line 1987)
AfterConstHash(s, v, survives) ==
    IF 0 < v THEN [s EXCEPT !.cnt.hashSize = v, !.cnt.k = 0, !.pc = "constHashItem"]
    ELSE PushUninit(s, survives)

\* reader.readInt() in the inner loop (lines 1988-1991); expr is never assigned
AfterConstHashItem(s, v, survives) ==
    IF s.cnt.k + 1 < s.cnt.hashSize THEN [s EXCEPT !.cnt.k = @ + 1]
    ELSE PushUninit(s, survives)

\* closureCount; p->children.reserve (lines 2001-2003)
AfterClosureCount(s, v) ==
    IF ReserveThrows(v) THEN Thrown(s, "length_error")
    ELSE [s EXCEPT !.cnt.closureCount = v, !.cnt.j = 0,
                   !.pc = IF 0 < v THEN "child" ELSE "nameIndex"]

\* protos.at(index) of a child (line 2005): whether it returns, and the
\* prototype (its table position)
ProtosAt_unchecked(ps, v) == [ok |-> TRUE, proto |-> v]

ProtosAt(ps, v) == [ok |-> InRange(ps, v), proto |-> v]

\* p->children.push_back(protos.at(reader.readInt())) (line 2005).  childIndex
\* is history: the index this read returned.
AfterChild(s, v) ==
    LET s1 == [s EXCEPT !.cnt.childIndex = <<v>>]
    IN IF ~ProtosAt(s.protos, v).ok THEN Thrown(s1, "out_of_range")
       ELSE [s1 EXCEPT !.p.children = Append(@, ProtosAt(s.protos, v).proto),
                       !.cnt.j = @ + 1,
                       !.pc = IF s.cnt.j + 1 < s.cnt.closureCount THEN "child"
                              ELSE "nameIndex"]

\* nameIndex (lines 2008-2012)
AfterNameIndex(s, v) ==
    IF v = 0
    THEN [s EXCEPT !.cnt.lookup = Lookup("name", v, "absent"), !.pc = "lineInfoCount"]
    ELSE IF ~InRange(s.stringTable, v - 1)
    THEN Thrown([s EXCEPT !.cnt.lookup = Lookup("name", v, "error")], "out_of_range")
    ELSE [s EXCEPT !.cnt.lookup = Lookup("name", v, "entry"),
                   !.p.name = s.stringTable[v], !.pc = "lineInfoCount"]

\* if (lastLine < 0) setFlagged(), after the loop (lines 2023-2024)
LineFlag(s) == IF s.cnt.lastLine < 0 THEN setFlagged(s) ELSE s

\* lineInfoCount; reserve; int lastLine = 0 (lines 2014-2017)
AfterLineInfoCount(s, v) ==
    IF ReserveThrows(v) THEN Thrown(s, "length_error")
    ELSE LET s1 == [s EXCEPT !.cnt.lineInfoCount = v, !.cnt.j = 0, !.cnt.lastLine = 0,
                             !.cnt.negativeLine = FALSE]
         IN IF 0 < v THEN [s1 EXCEPT !.pc = "lineInfo"]
            ELSE [LineFlag(s1) EXCEPT !.pc = "trailing"]

\* lastLine += reader.readInt(); push_back (lines 2019-2020).  negativeLine is
\* history: some cumulative line of this prototype was negative.
AfterLineDelta(s, v) ==
    LET lastLine == s.cnt.lastLine + v
        s1 == [s EXCEPT !.cnt.lastLine = lastLine,
                        !.cnt.negativeLine = @ \/ lastLine < 0,
                        !.p.lineInfo = Append(@, lastLine), !.cnt.j = @ + 1]
    IN IF s.cnt.j + 1 < s.cnt.lineInfoCount THEN s1
       ELSE [LineFlag(s1) EXCEPT !.pc = "trailing"]

\* the trailing byte; protos.push_back(p); ++i (lines 2026-2030, 1842-1844)
AfterTrailing(s, bs) ==
    LET s1 == IF bs[1] # 0 THEN setFlagged(s) ELSE s
    IN [s1 EXCEPT !.protos = Append(@, s1.p), !.p = NewProto, !.cnt.i = @ + 1,
                  !.pc = IF s.cnt.i + 1 < s.cnt.protoCount THEN "maxRegCount"
                         ELSE "mainIndex"]

(***************************************************************************)
(* The syntax tree.  An expression is a tree, copied where the code        *)
(* shares a pointer; a statement carries the identity of its node (id),    *)
(* which is what LocalData::references and std::find compare.  A block     *)
(* (AstStatBlock) is the sequence of its statements; for the visitors,     *)
(* which tell no block from another, every block has the identity 0 that   *)
(* no allocated statement has.                                             *)
(***************************************************************************)
\* AstExprConstantNil, ...Bool, ...Number, AstExprGlobal, AstExprVarargs,
\* AstExprTable with no pairs: nodes without children.  The class "null" is
\* a null AstExpr pointer.
AstExprLeaf(class) == [e |-> class]

\* The pointer p->constants[index]: the node decoded there, or whatever an
\* index past the end or an uninitialized slot holds.
ConstantExpr(constants, index) ==
    IF index >= 0 /\ index < Len(constants) /\ constants[index + 1].kind # "Uninit"
    THEN [e |-> "constant", kind |-> constants[index + 1].kind]
    ELSE AstExprLeaf("wild")

AstExprLocal(local, upvalue) == [e |-> "local", local |-> local, upvalue |-> upvalue]

AstExprCall(func, args, self) ==
    [e |-> "call", func |-> func, args |-> args, self |-> self]

AstExprIndexName(expr) == [e |-> "indexname", expr |-> expr]

AstExprIndexExpr(expr, index) == [e |-> "indexexpr", expr |-> expr, index |-> index]

AstExprFunction(self, args, body) ==
    [e |-> "function", self |-> self, args |-> args, body |-> body]

AstExprUnary(op, expr) == [e |-> "unary", op |-> op, expr |-> expr]

AstExprBinary(op, left, right) ==
    [e |-> "binary", op |-> op, left |-> left, right |-> right]

\* Statements as the lifter builds them; id is given when the node is allocated.
AstStatLocal(locals, values) ==
    [kind |-> "local", id |-> 0, vars |-> locals, values |-> values]

AstStatAssign(targets, values) ==
    [kind |-> "assign", id |-> 0, vars |-> targets, values |-> values]

AstStatLocalFunction(var, body) ==
    [kind |-> "localfunction", id |-> 0, var |-> var, body |-> body]

AstStatExpr(expr) == [kind |-> "expr", id |-> 0, expr |-> expr]

AstStatReturn(list) == [kind |-> "return", id |-> 0, list |-> list]

AstStatWhile(condition, body) ==
    [kind |-> "while", id |-> 0, condition |-> condition, body |-> body]

AstStatIf(condition, thenbody) ==
    [kind |-> "if", id |-> 0, condition |-> condition, thenbody |-> thenbody]

(***************************************************************************)
(* LocalCollector (lines 235-256): the census of the AstExprLocal nodes    *)
(* under a statement list, in visit order.  The AstStat visit is reached   *)
(* for every statement class and sets context; nothing restores it when a  *)
(* nested statement has been left.  inFunction notes that the node lies    *)
(* under the body of an AstExprFunction.                                   *)
(***************************************************************************)
RECURSIVE CollectExpr(_, _)
RECURSIVE CollectExprs(_, _, _)
RECURSIVE CollectStat(_, _)
RECURSIVE CollectStats(_, _, _)

\* AstExpr...::visit for each class of expression
CollectExpr(expr, st) ==
    CASE expr.e = "local" ->
            [st EXCEPT !.references =
                Append(@, [local |-> expr.local, context |-> st.context,
                           inFunction |-> st.inFunction])]
      [] expr.e = "call" -> CollectExprs(expr.args, 1, CollectExpr(expr.func, st))
      [] expr.e \in {"indexname", "unary"} -> CollectExpr(expr.expr, st)
      [] expr.e = "indexexpr" -> CollectExpr(expr.index, CollectExpr(expr.expr, st))
      [] expr.e = "binary" -> CollectExpr(expr.right, CollectExpr(expr.left, st))
      [] expr.e = "function" ->
            [CollectStats(expr.body, 1, [st EXCEPT !.context = 0, !.inFunction = TRUE])
                EXCEPT !.inFunction = st.inFunction]
      [] OTHER -> st

CollectExprs(exprs, k, st) ==
    IF k > Len(exprs) THEN st
    ELSE CollectExprs(exprs, k + 1, CollectExpr(exprs[k], st))

\* AstStat...::visit for each class of statement
CollectStat(stat, st) ==
    LET s1 == [st EXCEPT !.context = stat.id]
    IN CASE stat.kind = "local" -> CollectExprs(stat.values, 1, s1)
         [] stat.kind = "assign" ->
                CollectExprs(stat.values, 1, CollectExprs(stat.vars, 1, s1))
         [] stat.kind = "localfunction" -> CollectExpr(stat.body, s1)
         [] stat.kind = "expr" -> CollectExpr(stat.expr, s1)
         [] stat.kind = "return" -> CollectExprs(stat.list, 1, s1)
         [] stat.kind = "while" ->
                CollectStats(stat.body, 1,
                             [CollectExpr(stat.condition, s1) EXCEPT !.context = 0])
         [] stat.kind = "if" ->
                CollectStats(stat.thenbody, 1,
                             [CollectExpr(stat.condition, s1) EXCEPT !.context = 0])
         [] OTHER -> s1

CollectStats(stats, k, st) ==
    IF k > Len(stats) THEN st
    ELSE CollectStats(stats, k + 1, CollectStat(stats[k], st))

\* for (stat : body) stat->visit(&localCollector): every reference found
LocalCollector(body) ==
    CollectStats(body, 1, [references |-> << >>, context |-> 0,
                           inFunction |-> FALSE]).references

\* localInfo[local].references: the contexts recorded for one local
References(localInfo, local) ==
    LET hits == {k \in 1..Len(localInfo) : localInfo[k].local = local}
        nth(n) == CHOOSE k \in hits : Cardinality({m \in hits : m < k}) = n - 1
    IN [n \in 1..Cardinality(hits) |-> localInfo[nth(n)].context]

(***************************************************************************)
(* LocalInliner (lines 260-422): replaces AstExprLocal nodes of `find` by  *)
(* `replace` in the slots it reaches.                                      *)
(***************************************************************************)
RECURSIVE InlineChild(_, _, _)
RECURSIVE InlineStat(_, _, _)

\* VISIT_CHILD(slot) for a slot holding expr: what the slot holds afterwards.
\* Tables and the block of a function body return false.
InlineChild(expr, find, replace) ==
    CASE expr.e = "local" -> IF expr.local = find THEN replace ELSE expr
      [] expr.e = "call" ->
            [expr EXCEPT !.func = InlineChild(@, find, replace),
                         !.args = [k \in DOMAIN @ |-> InlineChild(@[k], find, replace)]]
      [] expr.e \in {"indexname", "unary"} ->
            [expr EXCEPT !.expr = InlineChild(@, find, replace)]
      [] expr.e = "indexexpr" ->
            [expr EXCEPT !.expr = InlineChild(@, find, replace),
                         !.index = InlineChild(@, find, replace)]
      [] expr.e = "binary" ->
            [expr EXCEPT !.left = InlineChild(@, find, replace),
                         !.right = InlineChild(@, find, replace)]
      [] OTHER -> expr

\* stat->visit(&localInliner)
InlineStat(stat, find, replace) ==
    LET child(expr) == InlineChild(expr, find, replace)
        each(exprs) == [k \in DOMAIN exprs |-> child(exprs[k])]
        stats(block) == [k \in DOMAIN block |-> InlineStat(block[k], find, replace)]
    IN CASE stat.kind = "local" -> [stat EXCEPT !.values = each(@)]
         [] stat.kind = "assign" -> [stat EXCEPT !.values = each(@), !.vars = each(@)]
         [] stat.kind = "expr" -> [stat EXCEPT !.expr = child(@)]
         [] stat.kind = "return" -> [stat EXCEPT !.list = each(@)]
         [] stat.kind = "if" ->
                [stat EXCEPT !.condition = child(@), !.thenbody = stats(@)]
         [] stat.kind = "while" ->
                [stat EXCEPT !.condition = child(@), !.body = stats(@)]
         [] OTHER -> stat

(***************************************************************************)
(* Statements by identity: a reference recorded by the collector is a      *)
(* pointer to a node that may lie anywhere under the list.                 *)
(***************************************************************************)
RECURSIVE StatsUnderExpr(_)
RECURSIVE StatsUnderStat(_)
RECURSIVE StatsUnder(_, _)

StatsUnderExpr(expr) ==
    CASE expr.e = "call" ->
            StatsUnderExpr(expr.func) \cup
            UNION {StatsUnderExpr(expr.args[k]) : k \in DOMAIN expr.args}
      [] expr.e \in {"indexname", "unary"} -> StatsUnderExpr(expr.expr)
      [] expr.e = "indexexpr" -> StatsUnderExpr(expr.expr) \cup StatsUnderExpr(expr.index)
      [] expr.e = "binary" -> StatsUnderExpr(expr.left) \cup StatsUnderExpr(expr.right)
      [] expr.e = "function" -> StatsUnder(expr.body, 1)
      [] OTHER -> {}

StatsUnderStat(stat) ==
    LET of(exprs) == UNION {StatsUnderExpr(exprs[k]) : k \in DOMAIN exprs}
    IN {stat} \cup
       CASE stat.kind = "local" -> of(stat.values)
         [] stat.kind = "assign" -> of(stat.vars) \cup of(stat.values)
         [] stat.kind = "localfunction" -> StatsUnderExpr(stat.body)
         [] stat.kind = "expr" -> StatsUnderExpr(stat.expr)
         [] stat.kind = "return" -> of(stat.list)
         [] stat.kind = "while" ->
                StatsUnderExpr(stat.condition) \cup StatsUnder(stat.body, 1)
         [] stat.kind = "if" ->
                StatsUnderExpr(stat.condition) \cup StatsUnder(stat.thenbody, 1)
         [] OTHER -> {}

\* Every statement node under stats[k..]
StatsUnder(stats, k) ==
    IF k > Len(stats) THEN {}
    ELSE StatsUnderStat(stats[k]) \cup StatsUnder(stats, k + 1)

\* The node a reference points to: a statement of the list, or a block.
Node(body, ref) ==
    IF \E stat \in StatsUnder(body, 1) : stat.id = ref
    THEN CHOOSE stat \in StatsUnder(body, 1) : stat.id = ref
    ELSE [kind |-> "block", id |-> 0]

RECURSIVE VisitAtExpr(_, _, _, _)
RECURSIVE VisitAtStat(_, _, _, _)

\* refStat->visit(&localInliner) where refStat is the node with identity ref:
\* the list after the inliner has rewritten that node in place.
VisitAtExpr(expr, ref, find, replace) ==
    CASE expr.e = "call" ->
            [expr EXCEPT !.func = VisitAtExpr(@, ref, find, replace),
                         !.args = [k \in DOMAIN @ |-> VisitAtExpr(@[k], ref, find, replace)]]
      [] expr.e \in {"indexname", "unary"} ->
            [expr EXCEPT !.expr = VisitAtExpr(@, ref, find, replace)]
      [] expr.e = "indexexpr" ->
            [expr EXCEPT !.expr = VisitAtExpr(@, ref, find, replace),
                         !.index = VisitAtExpr(@, ref, find, replace)]
      [] expr.e = "binary" ->
            [expr EXCEPT !.left = VisitAtExpr(@, ref, find, replace),
                         !.right = VisitAtExpr(@, ref, find, replace)]
      [] expr.e = "function" ->
            [expr EXCEPT !.body =
                [k \in DOMAIN @ |-> VisitAtStat(@[k], ref, find, replace)]]
      [] OTHER -> expr

VisitAtStat(stat, ref, find, replace) ==
    LET child(expr) == VisitAtExpr(expr, ref, find, replace)
        each(exprs) == [k \in DOMAIN exprs |-> child(exprs[k])]
        stats(block) == [k \in DOMAIN block |-> VisitAtStat(block[k], ref, find, replace)]
    IN IF stat.id = ref /\ ref # 0 THEN InlineStat(stat, find, replace)
       ELSE CASE stat.kind = "local" -> [stat EXCEPT !.values = each(@)]
              [] stat.kind = "assign" -> [stat EXCEPT !.values = each(@), !.vars = each(@)]
              [] stat.kind = "localfunction" -> [stat EXCEPT !.body = child(@)]
              [] stat.kind = "expr" -> [stat EXCEPT !.expr = child(@)]
              [] stat.kind = "return" -> [stat EXCEPT !.list = each(@)]
              [] stat.kind = "if" ->
                     [stat EXCEPT !.condition = child(@), !.thenbody = stats(@)]
              [] stat.kind = "while" ->
                     [stat EXCEPT !.condition = child(@), !.body = stats(@)]
              [] OTHER -> stat

(***************************************************************************)
(* Decompiler::decompile of one Proto: the lifter.  A frame is one         *)
(* activation: its prototype (table position), the loop index i, body,     *)
(* the register map, the tail and self state, the fringe f (a deque used   *)
(* first-in first-out) and instrBodyMap.  `wild` records that some         *)
(* expression is a null, dangling or uninitialized pointer.                *)
(***************************************************************************)
\* std::vector of Proto pointers functionStack: no statement of the class pushes onto it.
functionStack == << >>

Top(s) == s.frames[Len(s.frames)]

WithTop(s, fr) == [s EXCEPT !.frames[Len(s.frames)] = fr]

\* The prototype p of the innermost activation.
ProtoOf(s) == s.protos[Top(s).proto + 1]

\* createLocal: a fresh AstLocal at depth functionStack.size()
createLocal(s) == [id |-> s.alloc, functionDepth |-> Len(functionStack)]

\* findOrCreateLocal(localStack, location, i)
findOrCreateLocal(s, i) ==
    LET localStack == Top(s).localStack
    IN IF i \in DOMAIN localStack
       THEN [s |-> s, local |-> localStack[i], created |-> FALSE]
       ELSE [s |-> [WithTop(s, [Top(s) EXCEPT !.localStack =
                                   [r \in DOMAIN localStack \cup {i} |->
                                       IF r = i THEN createLocal(s) ELSE localStack[r]]])
                      EXCEPT !.alloc = @ + 1],
             local |-> createLocal(s), created |-> TRUE]

\* A loop of findOrCreateLocal over the registers regs[1] < regs[2] < ...:
\* the state after it, for each register whether the call created it, and
\* the locals found.
findOrCreateRange(s, regs) ==
    LET localStack == Top(s).localStack
        new == {regs[k] : k \in 1..Len(regs)} \ DOMAIN localStack
        rank(r) == Cardinality({q \in new : q < r})
        after == [r \in DOMAIN localStack \cup new |->
                    IF r \in DOMAIN localStack THEN localStack[r]
                    ELSE [id |-> s.alloc + rank(r),
                          functionDepth |-> Len(functionStack)]]
    IN [s |-> [WithTop(s, [Top(s) EXCEPT !.localStack = after])
                 EXCEPT !.alloc = @ + Cardinality(new)],
        created |-> [k \in 1..Len(regs) |-> regs[k] \in new],
        locals |-> [k \in 1..Len(regs) |-> after[regs[k]]]]

\* localStack.erase(r) for every r of regs
Erase(localStack, regs) == [r \in DOMAIN localStack \ regs |-> localStack[r]]

\* generateLocalAssign: a declaration when the local was created, else an assignment
generateLocalAssign(local, created, values) ==
    IF created THEN AstStatLocal(<<local>>, values)
    ELSE AstStatAssign(<<AstExprLocal(local, FALSE)>>, values)

\* body.push_back(stat) of a statement just allocated with new (a): the node
\* gets an identity of its own
push_back(s, stat) ==
    [WithTop(s, [Top(s) EXCEPT !.body = Append(@, [stat EXCEPT !.id = s.nodes + 1])])
        EXCEPT !.nodes = @ + 1]

\* i++ inside a case, and the ++i of the loop
Skip(s) == WithTop(s, [Top(s) EXCEPT !.i = @ + 1])

FlagIf(cond, s) == IF cond THEN setFlagged(s) ELSE s

\* A statement slot that body.resize() filled with nullptr.
HasNull(stats) == \E k \in 1..Len(stats) : stats[k].kind = "null"

\* p->code[i].encoded as an index into seq.  An encoded word with b or c set is
\* at least 65536, beyond every vector explored.
EncodedInRange(seq, w) == w.b = 0 /\ w.c = 0 /\ InRange(seq, encoded(w))

\* Undefined behaviour inside a case: the build goes on with what it read, or
\* the process ends.
Undefined(s, survives, goesOn) == IF survives THEN goesOn ELSE Crashed(s)

\* p->constants[index] without a check (LoadConst, GetGlobalConst, the table
\* getters and setters): the pointer is stored, not dereferenced.
ConstantPointer(s, inRange, index, survives, goesOn) ==
    IF ~inRange THEN Undefined(s, survives, [goesOn EXCEPT !.wild = TRUE])
    ELSE IF ProtoOf(s).constants[index + 1].kind = "Uninit"
    THEN [goesOn EXCEPT !.wild = TRUE]
    ELSE goesOn

\* p->code[i].encoded after i++, then p->constants[constantIndex]
AuxConstantPointer(s, survives, goesOn) ==
    LET code == ProtoOf(s).code
        i == Top(s).i
    IN IF ~InRange(code, i) THEN Undefined(s, survives, [goesOn EXCEPT !.wild = TRUE])
       ELSE ConstantPointer(s, EncodedInRange(ProtoOf(s).constants, code[i + 1]),
                            encoded(code[i + 1]), survives, goesOn)

\* The expression p->constants[p->code[i].encoded] after i++
AuxConstantExpr(s) ==
    LET code == ProtoOf(s).code
        i == Top(s).i
    IN IF InRange(code, i) /\ EncodedInRange(ProtoOf(s).constants, code[i + 1])
       THEN ConstantExpr(ProtoOf(s).constants, encoded(code[i + 1]))
       ELSE AstExprLeaf("wild")

\* p->constants[constantIndex]->as<AstExprConstantString>()->value: defined
\* only when the index is in range and the constant is a string.
AuxStringValue(s, survives, goesOn) ==
    LET code == ProtoOf(s).code
        i == Top(s).i
        constants == ProtoOf(s).constants
    IN IF /\ InRange(code, i)
          /\ EncodedInRange(constants, code[i + 1])
          /\ constants[encoded(code[i + 1]) + 1].kind = "String"
       THEN goesOn
       ELSE Undefined(s, survives, goesOn)

\* cases LoadNil, LoadBool, LoadShort (lines 610-650)
LiftLoad(s, instr) ==
    LET r == findOrCreateLocal(s, instr.a)
        expr == CASE OpName(instr.op) = "LoadNil" -> AstExprLeaf("nil")
                  [] OpName(instr.op) = "LoadBool" -> AstExprLeaf("bool")
                  [] OTHER -> AstExprLeaf("number")
    IN push_back(r.s, generateLocalAssign(r.local, r.created, <<expr>>))

\* case LoadConst (lines 651-663)
LiftLoadConst(s, instr, survives) ==
    LET r == findOrCreateLocal(s, instr.a)
        expr == ConstantExpr(ProtoOf(s).constants, b_x(instr))
    IN ConstantPointer(r.s, InRange(ProtoOf(s).constants, b_x(instr)), b_x(instr),
                       survives,
                       push_back(r.s, generateLocalAssign(r.local, r.created, <<expr>>)))

\* case Move (lines 664-701)
LiftMove(s, instr) ==
    LET to == findOrCreateLocal(s, instr.a)
        fr == Top(s)
    IN IF fr.isTail /\ instr.b >= fr.tailBase
       THEN LET expr == IF instr.b = fr.tailBase THEN fr.tailExpr
                        ELSE AstExprLeaf("nil")
            IN push_back(to.s, generateLocalAssign(to.local, to.created, <<expr>>))
       ELSE LET from == findOrCreateLocal(to.s, instr.b)
                expr == AstExprLocal(from.local, FALSE)
            IN push_back(FlagIf(from.created, from.s),
                         generateLocalAssign(to.local, to.created, <<expr>>))

\* case GetGlobal (lines 702-727)
LiftGetGlobal(s, instr, survives) ==
    LET r == findOrCreateLocal(s, instr.a)
        s1 == Skip(r.s)
        globalExpr == AstExprLeaf("global")
    IN AuxStringValue(s1, survives,
           push_back(s1, generateLocalAssign(r.local, r.created, <<globalExpr>>)))

\* case SetGlobal (lines 728-752)
LiftSetGlobal(s, instr, survives) ==
    LET r == findOrCreateLocal(s, instr.a)
        valueExpr == AstExprLocal(r.local, FALSE)
        s1 == Skip(r.s)
        globalExpr == AstExprLeaf("global")
    IN AuxStringValue(s1, survives,
           push_back(s1, AstStatAssign(<<globalExpr>>, <<valueExpr>>)))

\* case GetUpvalue (lines 753-768)
LiftGetUpvalue(s, instr) ==
    LET r == findOrCreateLocal(s, instr.a)
    IN IF ~InRange(ProtoOf(s).upvalues, instr.b) THEN Thrown(r.s, "out_of_range")
       ELSE LET expr == AstExprLocal(ProtoOf(s).upvalues[instr.b + 1], TRUE)
            IN push_back(r.s, generateLocalAssign(r.local, r.created, <<expr>>))

\* case SetUpvalue (lines 769-784)
LiftSetUpvalue(s, instr) ==
    LET r == findOrCreateLocal(s, instr.a)
    IN IF ~InRange(ProtoOf(s).upvalues, instr.b) THEN Thrown(r.s, "out_of_range")
       ELSE LET expr == AstExprLocal(r.local, TRUE)
            IN push_back(r.s, generateLocalAssign(ProtoOf(s).upvalues[instr.b + 1],
                                                  FALSE, <<expr>>))

\* case GetGlobalConst (lines 786-800)
LiftGetGlobalConst(s, instr, survives) ==
    LET r == findOrCreateLocal(s, instr.a)
        expr == ConstantExpr(ProtoOf(s).constants, b_x(instr))
    IN ConstantPointer(r.s, InRange(ProtoOf(s).constants, b_x(instr)), b_x(instr),
                       survives,
                       Skip(push_back(r.s, generateLocalAssign(r.local, r.created,
                                                               <<expr>>))))

\* case GetTableIndex (lines 801-831)
LiftGetTableIndex(s, instr) ==
    LET res == findOrCreateLocal(s, instr.a)
        table == findOrCreateLocal(res.s, instr.b)
        index == findOrCreateLocal(table.s, instr.c)
        expr == AstExprIndexExpr(AstExprLocal(table.local, FALSE),
                                 AstExprLocal(index.local, FALSE))
    IN push_back(FlagIf(table.created \/ index.created, index.s),
                 generateLocalAssign(res.local, res.created, <<expr>>))

\* case SetTableIndex (lines 832-863)
LiftSetTableIndex(s, instr) ==
    LET value == findOrCreateLocal(s, instr.a)
        table == findOrCreateLocal(value.s, instr.b)
        index == findOrCreateLocal(table.s, instr.c)
        expr == AstExprIndexExpr(AstExprLocal(table.local, FALSE),
                                 AstExprLocal(index.local, FALSE))
    IN push_back(index.s, AstStatAssign(<<expr>>, <<AstExprLocal(value.local, FALSE)>>))

\* case GetTableIndexConstant (lines 864-900)
LiftGetTableIndexConstant(s, instr, survives) ==
    LET res == findOrCreateLocal(s, instr.a)
        table == findOrCreateLocal(res.s, instr.b)
        s1 == Skip(FlagIf(table.created, table.s))
        expr == AstExprIndexExpr(AstExprLocal(table.local, FALSE), AuxConstantExpr(s1))
    IN AuxConstantPointer(s1, survives,
           push_back(s1, generateLocalAssign(res.local, res.created, <<expr>>)))

\* case SetTableIndexConstant (lines 901-930)
LiftSetTableIndexConstant(s, instr, survives) ==
    LET value == findOrCreateLocal(s, instr.a)
        table == findOrCreateLocal(value.s, instr.b)
        s1 == Skip(table.s)
        expr == AstExprIndexExpr(AstExprLocal(table.local, FALSE), AuxConstantExpr(s1))
    IN AuxConstantPointer(s1, survives,
           push_back(s1, AstStatAssign(<<expr>>, <<AstExprLocal(value.local, FALSE)>>)))

\* case GetTableIndexByte (lines 931-958)
LiftGetTableIndexByte(s, instr) ==
    LET res == findOrCreateLocal(s, instr.a)
        table == findOrCreateLocal(res.s, instr.b)
        expr == AstExprIndexExpr(AstExprLocal(table.local, FALSE), AstExprLeaf("number"))
    IN push_back(FlagIf(table.created, table.s),
                 generateLocalAssign(res.local, res.created, <<expr>>))

\* case SetTableIndexByte (lines 959-1004)
LiftSetTableIndexByte(s, instr) ==
    LET value == findOrCreateLocal(s, instr.a)
        table == findOrCreateLocal(value.s, instr.b)
        expr == AstExprIndexExpr(AstExprLocal(table.local, FALSE), AstExprLeaf("number"))
    IN push_back(table.s, AstStatAssign(<<expr>>, <<AstExprLocal(value.local, FALSE)>>))

(***************************************************************************)
(* Decompiler::optimize (lines 1618-1801) over one statement vector.       *)
(***************************************************************************)
\* for (var : assignStat->vars) ... localExpr->local == local
TargetsLocal(stat, local) ==
    /\ stat.kind = "assign"
    /\ \E k \in DOMAIN stat.vars :
          stat.vars[k].e = "local" /\ stat.vars[k].local = local

\* The loop over info.references with lastAssign (lines 1670-1717): the
\* assignments it pushes onto toSplit.
RECURSIVE SplitCandidates(_, _, _, _, _)
SplitCandidates(heap, references, n, local, lastAssign) ==
    LET next(found, last) ==
            found \cup SplitCandidates(heap, references, n + 1, local, last)
        at(ref) ==
            IF lastAssign /\ ref.kind = "assign"
            THEN next(IF TargetsLocal(ref, local) THEN {ref.id} ELSE {}, FALSE)
            ELSE next({}, IF ref.kind = "assign" THEN ~TargetsLocal(ref, local)
                          ELSE ref.kind = "local")
    IN IF n > Len(references) THEN {} ELSE at(Node(heap, references[n]))

\* for (auto inl : inliners) stat->visit(&inl)
RECURSIVE ApplyInliners(_, _, _)
ApplyInliners(stat, inliners, j) ==
    IF j > Len(inliners) THEN stat
    ELSE ApplyInliners(InlineStat(stat, inliners[j].find, inliners[j].replace),
                       inliners, j + 1)

\* The "split locals" loop (lines 1628-1719) from body position k.  heap
\* holds the nodes the loop started with, rewritten in place; body the
\* vector, where a split assignment has been replaced by a declaration.  An
\* inliner also notes the position and the values of the assignment it was
\* installed at (history).
RECURSIVE SplitLocals(_, _, _)
SplitLocals(st, k, localInfo) ==
    LET go(next) == SplitLocals(next, k + 1, localInfo)
        split(stat, seen, newLocal) ==
            [seen EXCEPT !.s.alloc = @ + 1, !.s.nodes = @ + 1,
                         !.inliners = Append(@,
                             [find |-> stat.vars[1].local,
                              replace |-> AstExprLocal(newLocal, FALSE),
                              at |-> k, values |-> stat.values]),
                         !.body[k] = [AstStatLocal(<<newLocal>>, stat.values)
                                        EXCEPT !.id = st.s.nodes + 1]]
        mark(seen, local, references) ==
            IF Len(references) > 1
            THEN [seen EXCEPT !.toSplit =
                    @ \cup SplitCandidates(seen.heap, references, 1, local, FALSE)]
            ELSE seen
        visit(stat, seen) ==
            IF stat.kind = "assign"
            THEN IF stat.id \in st.toSplit /\ stat.vars[1].e = "local"
                 THEN split(stat, seen, createLocal(st.s))
                 ELSE seen
            ELSE IF stat.kind = "local" /\ Len(stat.vars) = 1
            THEN mark(seen, stat.vars[1], References(localInfo, stat.vars[1]))
            ELSE seen
        at(stat) == go(visit(stat, [st EXCEPT !.heap[k] = stat, !.body[k] = stat]))
    IN IF k > Len(st.heap) THEN st
       ELSE at(ApplyInliners(st.heap[k], st.inliners, 1))

\* The loop over localStat->vars inside the remove_if predicate (lines
\* 1741-1790) from variable i: the nodes after the inliners ran, and the
\* count `optimized`.
RECURSIVE InlineVars(_, _, _, _, _)
InlineVars(heap, k, i, optimized, localInfo) ==
    LET value(localStat) == IF i <= Len(localStat.values) THEN localStat.values[i]
                            ELSE AstExprLeaf("wild")
        at(local, references) ==
            IF Len(references) = 1
               /\ ~TargetsLocal(Node(heap, references[1]), local)
            THEN InlineVars([m \in DOMAIN heap |->
                                VisitAtStat(heap[m], references[1], local,
                                            value(heap[k]))],
                            k, i + 1, optimized + 1, localInfo)
            ELSE InlineVars(heap, k, i + 1, optimized, localInfo)
    IN IF i > Len(heap[k].vars) THEN [heap |-> heap, optimized |-> optimized]
       ELSE at(heap[k].vars[i], References(localInfo, heap[k].vars[i]))

\* std::remove_if with the predicate of lines 1731-1797, from position k:
\* the nodes rewritten in place and the positions the predicate removes.
RECURSIVE RemoveInlined(_, _, _, _)
RemoveInlined(heap, k, removed, localInfo) ==
    LET isTailRes(lastVal) == lastVal.e \in {"varargs", "call"}
        after(stat, r) ==
            RemoveInlined(r.heap, k + 1,
                          IF r.optimized = Len(stat.vars)
                          THEN removed \cup {k} ELSE removed,
                          localInfo)
        at(stat) ==
            IF stat.kind # "local"
               \/ (isTailRes(stat.values[Len(stat.values)]) /\ Len(stat.vars) > 1)
            THEN RemoveInlined(heap, k + 1, removed, localInfo)
            ELSE after(stat, InlineVars(heap, k, 1, 0, localInfo))
    IN IF k > Len(heap) THEN [heap |-> heap, removed |-> removed]
       ELSE at(heap[k])

\* optimize(body): the state (createLocal and the new declarations of the
\* split advance the counters) and the vector after body.erase.  Over a null
\* statement the call is undefined: the vector is then taken as it stands.
optimize(s, body) ==
    LET nth(kept, n) == CHOOSE k \in kept : Cardinality({m \in kept : m < k}) = n - 1
        pick(heap, kept) == [n \in 1..Cardinality(kept) |-> heap[nth(kept, n)]]
        erase(r) == pick(r.heap, {k \in 1..Len(r.heap) : k \notin r.removed})
        done(split, out) ==
            [s |-> [split.s EXCEPT !.hist.run = [in |-> split.body, out |-> out,
                                                 inliners |-> split.inliners]],
             body |-> out]
        remove(split) ==
            done(split, erase(RemoveInlined(split.body, 1, {},
                                            LocalCollector(split.body))))
    IN IF HasNull(body) THEN [s |-> s, body |-> body]
       ELSE remove(SplitLocals([s |-> s, heap |-> body, body |-> body,
                                inliners |-> << >>, toSplit |-> {}],
                               1, LocalCollector(body)))

NoClosure ==
    [active |-> FALSE, resLocal |-> [id |-> 0, functionDepth |-> 0],
     resCreated |-> FALSE, useLocalFunction |-> FALSE, child |-> 0]

\* The entry of decompile(p) up to the instruction loop (lines 553-587): the
\* argument locals are bound to registers 0 .. argCount - 1 and appended to
\* p->args.
EnterDecompile(s, proto) ==
    LET argCount == s.protos[proto + 1].argCount
        local(i) == [id |-> s.alloc + i, functionDepth |-> Len(functionStack)]
        fr == [proto |-> proto, i |-> 0, body |-> << >>,
               localStack |-> [i \in 0..(argCount - 1) |-> local(i)],
               isTail |-> FALSE, tailBase |-> 0, tailExpr |-> AstExprLeaf("null"),
               self |-> FALSE, selfExpr |-> AstExprLeaf("null"), f |-> << >>,
               instrBodyMap |-> << >>, closure |-> NoClosure]
    IN [s EXCEPT !.frames = Append(@, fr), !.alloc = @ + argCount,
                 !.protos[proto + 1].args = @ \o [k \in 1..argCount |-> local(k - 1)]]

\* i++ at the head of the capture loop (line 1018)
NextCapture_stay(s) == s

NextCapture(s) == WithTop(s, [Top(s) EXCEPT !.i = @ + 1])

\* The loop over the captures of a Closure (lines 1016-1041), from capture j.
RECURSIVE Captures(_, _, _, _, _)
Captures(s, j, child, resLocal, useLocalFunction) ==
    IF j >= s.protos[child + 1].upvalCount
    THEN [s |-> s, useLocalFunction |-> useLocalFunction]
    ELSE LET s1 == NextCapture(s)
             i == Top(s1).i
             code == ProtoOf(s1).code
         IN IF ~InRange(code, i)
            THEN [s |-> Thrown(s1, "out_of_range"), useLocalFunction |-> useLocalFunction]
            ELSE LET upInstr == code[i + 1]
                 IN IF OpName(upInstr.op) = "Move"
                    THEN LET up == findOrCreateLocal(s1, upInstr.b)
                             s2 == FlagIf(up.created, up.s)
                         IN Captures([s2 EXCEPT !.protos[child + 1].upvalues =
                                                   Append(@, up.local)],
                                     j + 1, child, resLocal,
                                     useLocalFunction \/ up.local = resLocal)
                    ELSE IF OpName(upInstr.op) = "GetUpvalue"
                    THEN IF ~InRange(ProtoOf(s1).upvalues, upInstr.b)
                         THEN [s |-> Thrown(s1, "out_of_range"),
                               useLocalFunction |-> useLocalFunction]
                         ELSE Captures([s1 EXCEPT !.protos[child + 1].upvalues =
                                          Append(@, ProtoOf(s1).upvalues[upInstr.b + 1])],
                                       j + 1, child, resLocal, useLocalFunction)
                    ELSE Captures(setFlagged(s1), j + 1, child, resLocal,
                                  useLocalFunction)

\* case Closure up to the call decompile(childProto) (lines 1005-1043)
LiftClosure(s, instr) ==
    LET res == findOrCreateLocal(s, instr.a)
        children == ProtoOf(s).children
    IN IF ~InRange(children, b_x(instr)) THEN Thrown(res.s, "out_of_range")
       ELSE LET child == children[b_x(instr) + 1]
                caps == Captures(res.s, 0, child, res.local, FALSE)
                s1 == WithTop(caps.s, [Top(caps.s) EXCEPT !.closure =
                          [active |-> TRUE, resLocal |-> res.local,
                           resCreated |-> res.created,
                           useLocalFunction |-> caps.useLocalFunction,
                           child |-> child]])
            IN IF caps.s.status # "running" THEN caps.s
               ELSE EnterDecompile(s1, child)

\* case Self (lines 1064-1097)
LiftSelf(s, instr, survives) ==
    LET s1 == Skip(WithTop(s, [Top(s) EXCEPT !.self = TRUE]))
        res == findOrCreateLocal(s1, instr.a)
        table == findOrCreateLocal(res.s, instr.b)
        expr == AstExprIndexName(AstExprLocal(table.local, FALSE))
    IN AuxStringValue(s1, survives,
                      WithTop(table.s, [Top(table.s) EXCEPT !.selfExpr = expr]))

\* new AstExprLocal{location, local, local->functionDepth != functionStack.size()}
LocalRead(local) == AstExprLocal(local, local.functionDepth # Len(functionStack))

\* case Call without the erase of the argument registers
LiftCall_keepArgs(s, instr) ==
    LET fr == Top(s)
        callBaseReg == instr.a
        self == IF fr.self THEN 1 ELSE 0
        first == IF instr.b # 0 THEN callBaseReg + 1 + self
                 ELSE (callBaseReg + 1 + self) % 256
        last == IF instr.b # 0 THEN callBaseReg + instr.b - 1 ELSE fr.tailBase - 1
        argRegs == first..last
        funcExpr == IF fr.self THEN fr.selfExpr ELSE LocalRead(fr.localStack[callBaseReg])
        locals == [k \in 1..(last - first + 1) |-> LocalRead(fr.localStack[first + k - 1])]
        args == IF instr.b # 0 THEN locals ELSE Append(locals, fr.tailExpr)
        expr == AstExprCall(funcExpr, args, fr.self)
        erased == Erase(fr.localStack, {callBaseReg})
        s1 == WithTop(s, [fr EXCEPT !.localStack = erased, !.self = FALSE])
        s2 == IF instr.b = 0 /\ fr.tailExpr = AstExprLeaf("null") THEN [s1 EXCEPT !.wild = TRUE]
              ELSE s1
        results == findOrCreateRange(s2, [k \in 1..(instr.c - 1) |-> callBaseReg + k - 1])
    IN IF ~fr.self /\ callBaseReg \notin DOMAIN fr.localStack
       THEN Thrown(s, "out_of_range")
       ELSE IF ~(argRegs \subseteq DOMAIN fr.localStack)
       THEN Thrown(s, "out_of_range")
       ELSE IF instr.c = 0
       THEN WithTop(s2, [Top(s2) EXCEPT !.isTail = TRUE, !.tailExpr = expr,
                                        !.tailBase = callBaseReg])
       ELSE IF instr.c - 1 # 0
       THEN push_back(results.s, AstStatLocal(results.locals, <<expr>>))
       ELSE push_back(s2, AstStatExpr(expr))

\* case Call (lines 1098-1182)
LiftCall(s, instr) ==
    LET fr == Top(s)
        callBaseReg == instr.a
        self == IF fr.self THEN 1 ELSE 0
        first == IF instr.b # 0 THEN callBaseReg + 1 + self
                 ELSE (callBaseReg + 1 + self) % 256
        last == IF instr.b # 0 THEN callBaseReg + instr.b - 1 ELSE fr.tailBase - 1
        argRegs == first..last
        funcExpr == IF fr.self THEN fr.selfExpr ELSE LocalRead(fr.localStack[callBaseReg])
        locals == [k \in 1..(last - first + 1) |-> LocalRead(fr.localStack[first + k - 1])]
        args == IF instr.b # 0 THEN locals ELSE Append(locals, fr.tailExpr)
        expr == AstExprCall(funcExpr, args, fr.self)
        erased == Erase(fr.localStack, {callBaseReg} \cup argRegs)
        s1 == WithTop(s, [fr EXCEPT !.localStack = erased, !.self = FALSE])
        s2 == IF instr.b = 0 /\ fr.tailExpr = AstExprLeaf("null") THEN [s1 EXCEPT !.wild = TRUE]
              ELSE s1
        results == findOrCreateRange(s2, [k \in 1..(instr.c - 1) |-> callBaseReg + k - 1])
    IN IF ~fr.self /\ callBaseReg \notin DOMAIN fr.localStack
       THEN Thrown(s, "out_of_range")
       ELSE IF ~(argRegs \subseteq DOMAIN fr.localStack)
       THEN Thrown(s, "out_of_range")
       ELSE IF instr.c = 0
       THEN WithTop(s2, [Top(s2) EXCEPT !.isTail = TRUE, !.tailExpr = expr,
                                        !.tailBase = callBaseReg])
       ELSE IF instr.c - 1 # 0
       THEN push_back(results.s, AstStatLocal(results.locals, <<expr>>))
       ELSE push_back(s2, AstStatExpr(expr))

\* case Return (lines 1183-1228)
LiftReturn(s, instr) ==
    LET fr == Top(s)
        first == instr.a
        last == IF instr.b = 0 THEN fr.tailBase - 1 ELSE instr.a + instr.b - 2
        regs == first..last
        locals == [k \in 1..(last - first + 1) |-> LocalRead(fr.localStack[first + k - 1])]
        values == IF instr.b = 0 THEN Append(locals, fr.tailExpr) ELSE locals
    IN IF instr.b = 1 /\ (ProtoOf(s).isMain \/ fr.i = Len(ProtoOf(s).code) - 1) THEN s
       ELSE IF instr.b = 0 /\ ~fr.isTail THEN Thrown(s, "expected tail expression.")
       ELSE IF ~(regs \subseteq DOMAIN fr.localStack) THEN Thrown(s, "out_of_range")
       ELSE push_back(WithTop(s, [fr EXCEPT !.localStack = Erase(@, regs),
                                            !.isTail = IF instr.b = 0 THEN FALSE ELSE @]),
                      AstStatReturn(values))

Slice_whole(body, bodyStartIndex) ==
    [fits |-> bodyStartIndex <= Len(body),
     innerBody |-> SubSeq(body, bodyStartIndex + 1, Len(body)), body |-> body]

\* The statements body[bodyStartIndex..end) and what body.resize leaves.
\* std::copy from an iterator past end() is undefined; resize then grows body
\* with null statements.
Slice(body, bodyStartIndex) ==
    IF bodyStartIndex <= Len(body)
    THEN [fits |-> TRUE, innerBody |-> SubSeq(body, bodyStartIndex + 1, Len(body)),
          body |-> SubSeq(body, 1, bodyStartIndex)]
    ELSE [fits |-> FALSE, innerBody |-> << >>,
          body |-> body \o [k \in 1..(bodyStartIndex - Len(body)) |->
                                [kind |-> "null", id |-> 0]]]

\* case LoopJump (lines 1234-1281).  i + instr.s_b_x is a size_t: a negative
\* sum wraps to a value above every size.
LiftLoopJump(s, instr, survives) ==
    LET fr == Top(s)
        target == fr.i + s_b_x(instr)
        s1 == FlagIf(target < 0 \/ target >= Len(fr.body), s)
    IN IF ~InRange(fr.instrBodyMap, target) THEN Thrown(s1, "out_of_range")
       ELSE LET closes == fr.f # << >> /\ fr.i = Head(fr.f).codeEndIndex
                cfInfo == Head(fr.f)
                condExpr == IF closes THEN AstExprLocal(cfInfo.local, FALSE)
                            ELSE AstExprLeaf("bool")
                bodyStartIndex == IF closes THEN cfInfo.bodyStartIndex
                                  ELSE fr.instrBodyMap[target + 1]
                cut == Slice(fr.body, bodyStartIndex)
                noted(s2) == [s2 EXCEPT !.hist.loop =
                                [at |-> fr.i, f |-> fr.f, closes |-> closes,
                                 bodyStartIndex |-> bodyStartIndex,
                                 condExpr |-> condExpr, left |-> Top(s2).f]]
                loop(opt) ==
                    noted(push_back(WithTop(opt.s,
                                            [fr EXCEPT !.f = IF closes THEN Tail(@)
                                                             ELSE @,
                                                       !.body = cut.body]),
                                    AstStatWhile(condExpr, opt.body)))
                end(s3) == IF cut.fits /\ ~HasNull(cut.innerBody) THEN s3
                           ELSE Undefined(s1, survives, [s3 EXCEPT !.wild = TRUE])
            IN end(loop(optimize(s1, cut.innerBody)))

\* cases Test and NotTest (lines 1282-1300)
LiftTest(s, instr) ==
    LET r == findOrCreateLocal(s, instr.a)
        fr == Top(r.s)
        target == fr.i + s_b_x(instr)
        s1 == FlagIf(target >= 0 /\ target <= Len(fr.body), FlagIf(r.created, r.s))
    IN WithTop(s1, [Top(s1) EXCEPT !.f = Append(@,
           [codeStartIndex |-> fr.i, bodyStartIndex |-> Len(fr.body),
            codeEndIndex |-> target, local |-> r.local,
            type |-> OpName(instr.op)])])

\* cases Add .. Pow (lines 1311-1356)
LiftBinary(s, instr) ==
    LET left == findOrCreateLocal(s, instr.b)
        s1 == FlagIf(left.created, left.s)
        right == findOrCreateLocal(s1, instr.c)
        s2 == FlagIf(right.created, right.s)
        res == findOrCreateLocal(s2, instr.a)
        expr == AstExprBinary(OpName(instr.op), AstExprLocal(left.local, FALSE),
                              AstExprLocal(right.local, FALSE))
    IN push_back(res.s, generateLocalAssign(res.local, res.created, <<expr>>))

\* cases AddByte .. PowByte (lines 1357-1397)
LiftBinaryByte(s, instr) ==
    LET left == findOrCreateLocal(s, instr.b)
        s1 == FlagIf(left.created, left.s)
        res == findOrCreateLocal(s1, instr.a)
        expr == AstExprBinary(OpName(instr.op), AstExprLocal(left.local, FALSE),
                              ConstantExpr(ProtoOf(s).constants, instr.c))
        stat == generateLocalAssign(res.local, res.created, <<expr>>)
    IN IF ~InRange(ProtoOf(s).constants, instr.c) THEN Thrown(res.s, "out_of_range")
       ELSE IF ProtoOf(s).constants[instr.c + 1].kind = "Uninit"
       THEN push_back([res.s EXCEPT !.wild = TRUE], stat)
       ELSE push_back(res.s, stat)

\* expr = new AstExprBinary{Concat, expr, rhsExpr} for each further operand
RECURSIVE ConcatExpr(_, _, _)
ConcatExpr(expr, locals, k) ==
    IF k > Len(locals) THEN expr
    ELSE ConcatExpr(AstExprBinary("Concat", expr, AstExprLocal(locals[k], FALSE)),
                    locals, k + 1)

\* case Concat (lines 1410-1444).  j is a byte: with c = 255 the test j <= c
\* never fails.
LiftConcat(s, instr) ==
    LET res == findOrCreateLocal(s, instr.a)
        start == findOrCreateLocal(res.s, instr.b)
        s1 == FlagIf(start.created, start.s)
        first == (instr.b + 1) % 256
        rhs == findOrCreateRange(s1, [k \in 1..(instr.c - first + 1) |-> first + k - 1])
        s2 == FlagIf(\E k \in DOMAIN rhs.created : rhs.created[k], rhs.s)
        expr == ConcatExpr(AstExprLocal(start.local, FALSE), rhs.locals, 1)
    IN IF instr.c = 255 THEN Hung(s2)
       ELSE push_back(s2, generateLocalAssign(res.local, res.created, <<expr>>))

\* cases Not, UnaryMinus, Len (lines 1445-1474)
LiftUnary(s, instr) ==
    LET res == findOrCreateLocal(s, instr.a)
        operand == findOrCreateLocal(res.s, instr.b)
        expr == AstExprUnary(OpName(instr.op), AstExprLocal(operand.local, FALSE))
    IN push_back(FlagIf(operand.created, operand.s),
                 generateLocalAssign(res.local, res.created, <<expr>>))

\* cases NewTable (which first skips a word) and NewTableConst (lines 1475-1491)
LiftNewTable(s, instr) ==
    LET s1 == IF OpName(instr.op) = "NewTable" THEN Skip(s) ELSE s
        res == findOrCreateLocal(s1, instr.a)
    IN push_back(res.s, generateLocalAssign(res.local, res.created,
                                            <<AstExprLeaf("table")>>))

\* case LoadVarargs (lines 1516-1556)
LiftLoadVarargs(s, instr) ==
    LET n == instr.b - 1
        regs == [k \in 1..n |-> instr.a + k - 1]
        created(k) == regs[k] \notin DOMAIN Top(s).localStack
        mixed == {k \in 2..n : created(k) # created(k - 1)}
        firstMixed == CHOOSE k \in mixed : \A m \in mixed : k <= m
        vaExpr == AstExprLeaf("varargs")
        all == findOrCreateRange(s, regs)
    IN IF instr.b = 0
       THEN WithTop(s, [Top(s) EXCEPT !.isTail = TRUE, !.tailExpr = vaExpr,
                                      !.tailBase = instr.a])
       ELSE IF mixed # {}
       THEN Thrown(findOrCreateRange(s, SubSeq(regs, 1, firstMixed)).s,
                   "unexpected error (ldva).")
       ELSE IF n >= 1 /\ created(n)
       THEN push_back(all.s, AstStatLocal(all.locals, <<vaExpr>>))
       ELSE Thrown(s, "what the fuck.")

\* The switch on instr.op (lines 598-1569).
Dispatch(s, instr, survives) ==
    LET op == OpName(instr.op)
    IN CASE op = "Nop" -> setFlagged(s)
         [] op \in {"LoadNil", "LoadBool", "LoadShort"} -> LiftLoad(s, instr)
         [] op = "LoadConst" -> LiftLoadConst(s, instr, survives)
         [] op = "Move" -> LiftMove(s, instr)
         [] op = "GetGlobal" -> LiftGetGlobal(s, instr, survives)
         [] op = "SetGlobal" -> LiftSetGlobal(s, instr, survives)
         [] op = "GetUpvalue" -> LiftGetUpvalue(s, instr)
         [] op = "SetUpvalue" -> LiftSetUpvalue(s, instr)
         [] op = "GetGlobalConst" -> LiftGetGlobalConst(s, instr, survives)
         [] op = "GetTableIndex" -> LiftGetTableIndex(s, instr)
         [] op = "SetTableIndex" -> LiftSetTableIndex(s, instr)
         [] op = "GetTableIndexConstant" -> LiftGetTableIndexConstant(s, instr, survives)
         [] op = "SetTableIndexConstant" -> LiftSetTableIndexConstant(s, instr, survives)
         [] op = "GetTableIndexByte" -> LiftGetTableIndexByte(s, instr)
         [] op = "SetTableIndexByte" -> LiftSetTableIndexByte(s, instr)
         [] op = "Closure" -> LiftClosure(s, instr)
         [] op = "Self" -> LiftSelf(s, instr, survives)
         [] op = "Call" -> LiftCall(s, instr)
         [] op = "Return" -> LiftReturn(s, instr)
         [] op = "LoopJump" -> LiftLoopJump(s, instr, survives)
         [] op \in {"Test", "NotTest"} -> LiftTest(s, instr)
         [] op \in {"Equal", "LesserOrEqual", "LesserThan", "NotEqual", "GreaterThan",
                    "GreaterOrEqual", "SetList"} -> Skip(s)
         [] op \in {"Add", "Sub", "Mul", "Div", "Mod", "Pow"} -> LiftBinary(s, instr)
         [] op \in {"AddByte", "SubByte", "MulByte", "DivByte", "ModByte", "PowByte"} ->
                LiftBinaryByte(s, instr)
         [] op = "Concat" -> LiftConcat(s, instr)
         [] op \in {"Not", "UnaryMinus", "Len"} -> LiftUnary(s, instr)
         [] op \in {"NewTable", "NewTableConst"} -> LiftNewTable(s, instr)
         [] op = "LoadVarargs" -> LiftLoadVarargs(s, instr)
         [] OTHER -> s

\* The fringe closure after the switch (lines 1571-1605).  When bodyStartIndex
\* is past the end, body.begin() + bodyStartIndex is itself undefined: the
\* comparison is false and nothing is moved, or a checked iterator stops.
CloseFringe(s, survives) ==
    LET fr == Top(s)
    IN IF fr.f # << >> /\ fr.i = Head(fr.f).codeEndIndex
       THEN LET cfInfo == Head(fr.f)
                fits == cfInfo.bodyStartIndex <= Len(fr.body)
                cut == IF fits THEN Slice(fr.body, cfInfo.bodyStartIndex)
                       ELSE [fits |-> FALSE, innerBody |-> << >>, body |-> fr.body]
                local == AstExprLocal(cfInfo.local, FALSE)
                condExpr == IF cfInfo.type = "Test" THEN AstExprUnary("Not", local)
                            ELSE local
                noted(s1) == [s1 EXCEPT !.hist.close =
                                [at |-> fr.i, cfInfo |-> cfInfo, size |-> Len(fr.body),
                                 innerBody |-> cut.innerBody, condExpr |-> condExpr,
                                 after |-> Len(Top(s1).body)]]
                close(opt) ==
                    noted(push_back(WithTop(opt.s, [fr EXCEPT !.body = cut.body,
                                                              !.f = Tail(@)]),
                                    AstStatIf(condExpr, opt.body)))
                end(s2) == IF fits /\ ~HasNull(cut.innerBody) THEN s2
                           ELSE Undefined(s, survives, s2)
            IN end(close(optimize(s, cut.innerBody)))
       ELSE s

\* The rest of an iteration after the switch: the fringe closure and ++i.
EndIteration(s, survives) ==
    LET next(s1) == IF s1.status = "running" THEN Skip(s1) ELSE s1
    IN next(CloseFringe(s, survives))

\* One iteration of the instruction loop (lines 589-1606), up to the call of
\* decompile(childProto) when the instruction is a Closure.  p->lineInfo[i]
\* is unchecked.
Iteration(s, lineSurvives, caseSurvives, fringeSurvives) ==
    LET fr == Top(s)
        instr == ProtoOf(s).code[fr.i + 1]
        s1 == WithTop(s, [fr EXCEPT !.instrBodyMap = Append(@, Len(fr.body))])
        end(s2) == IF s2.status # "running" \/ Len(s2.frames) > Len(s.frames) THEN s2
                   ELSE EndIteration(s2, fringeSurvives)
    IN IF ~InRange(ProtoOf(s).lineInfo, fr.i) /\ ~lineSurvives THEN Crashed(s)
       ELSE end(Dispatch(s1, instr, caseSurvives))

\* After the loop (lines 1608-1615): lineInfo.front() and back() of an empty
\* vector and optimize() over a null statement are undefined.  The block
\* returns to operator(), or to the Closure case of the caller, which appends
\* its statement and ends its iteration (lines 1044-1062, 1571-1606).
ReturnBlock(s, blockSurvives, fringeSurvives) ==
    LET fr == Top(s)
        stat(closure, funcExpr) ==
            IF closure.useLocalFunction /\ closure.resCreated
            THEN AstStatLocalFunction(closure.resLocal, funcExpr)
            ELSE generateLocalAssign(closure.resLocal, closure.resCreated,
                                     <<funcExpr>>)
        resume(popped, caller, body) ==
            EndIteration(push_back(WithTop(popped, [caller EXCEPT !.closure = NoClosure]),
                                   stat(caller.closure,
                                        AstExprFunction(caller.closure.resLocal,
                                                        ProtoOf(s).args, body))),
                         fringeSurvives)
        return(popped, body) ==
            IF Len(s.frames) = 1
            THEN [popped EXCEPT !.cnt.root = body, !.pc = "output"]
            ELSE resume(popped, Top(popped), body)
        leave(opt) ==
            return([opt.s EXCEPT !.frames = SubSeq(@, 1, Len(@) - 1)], opt.body)
    IN IF (ProtoOf(s).lineInfo = << >> \/ HasNull(fr.body)) /\ ~blockSurvives
       THEN Crashed(s)
       ELSE leave(optimize(s, fr.body))

\* mainProto = protos.at(reader.readInt()); isMain = true; decompile(mainProto)
\* (lines 2032-2035)
AfterMainIndex(s, v) ==
    IF ~InRange(s.protos, v) THEN Thrown(s, "out_of_range")
    ELSE EnterDecompile([s EXCEPT !.cnt.mainProto = v,
                                  !.protos[v + 1].isMain = TRUE, !.pc = "decompile"],
                        v)

(***************************************************************************)
(* Luau::decompile: the advisory comment and formatAst (lines 2046-2058).  *)
(***************************************************************************)
wasFlagged(s) == s.flagged

WriteAdvisory_always(b, isFlagged) == Append(b, "advisory")

WriteAdvisory(b, isFlagged) == IF isFlagged THEN Append(b, "advisory") ELSE b

\* formatAst prints the tree; it throws nothing of its own.
formatAst(b, root) == Append(b, "source")

\* Printing a tree that holds a wild pointer is undefined.
Orchestrate(s, survives) ==
    LET s1 == [s EXCEPT !.buff = WriteAdvisory(@, wasFlagged(s))]
    IN IF s.wild /\ ~survives THEN Crashed(s1)
       ELSE [s1 EXCEPT !.buff = formatAst(@, s.cnt.root), !.status = "returned",
                       !.pc = "done"]

(***************************************************************************)
(* The inputs explored.  Each class (prof) fixes what the input may hold   *)
(* at each place of the container.                                         *)
(***************************************************************************)
V(n) == <<n>>                            \* the varint of 0 <= n < 128

MinusOne == <<255, 255, 255, 255, 15>>   \* the varint that readInt returns as -1

Word(op, a, b, c) == <<op, a, b, c>>

Enc(name) == getClientOp(Op(name))

\* The 32-bit little-endian bytes of a ConstantGlobal with depth d and name
\* indices i1, i2, i3.
GlobalWord(d, i1, i2, i3) == <<i3 % 256, (i3 \div 256) + 4 * (i2 % 64),
                               (i2 \div 64) + 16 * (i1 % 16), (i1 \div 16) + 64 * d>>

Counts(max) == {V(n) : n \in 0..max}

Profiles == {"header", "studio", "opcodes", "consts", "children", "lines", "lift",
             "fringe", "tail", "closure", "split"}

\* D for the inputs of the classes in profs, otherwise the one value `plain`.
For(profs, D, plain) == IF prof \in profs THEN D ELSE {plain}

\* The instruction words of class "lift": one prototype whose code exercises
\* the register map, the tail state, the fringe and the flag conditions.
LiftWords ==
    {Word(Enc("Nop"), 0, 0, 0), Word(Enc("LoadNil"), 0, 0, 0),
     Word(Enc("Move"), 1, 0, 0), Word(Enc("GetGlobal"), 0, 0, 0),
     Word(Enc("Call"), 0, 1, 0), Word(Enc("Call"), 0, 0, 2),
     Word(Enc("Return"), 0, 0, 0), Word(Enc("Test"), 0, 1, 0),
     Word(Enc("LoopJump"), 0, 255, 255), Word(Enc("Concat"), 0, 0, 1),
     Word(Enc("LoadVarargs"), 0, 3, 0), Word(Enc("LoadConst"), 0, 1, 0)}

\* The instruction words of class "fringe" at code position j: one prototype
\* with Test, NotTest and LoopJump at chosen distances, and two-word
\* instructions before them.
FringeWords(j) ==
    CASE j = 0 -> {Word(Enc("LoadNil"), 0, 0, 0), Word(Enc("Test"), 1, 3, 0),
                   Word(Enc("Test"), 1, 2, 0), Word(Enc("NotTest"), 1, 2, 0),
                   Word(Enc("GetGlobal"), 0, 0, 0), Word(Enc("SetGlobal"), 0, 0, 0),
                   Word(Enc("Concat"), 0, 254, 255), Word(Enc("TForLoop"), 0, 0, 0)}
      [] j = 1 -> {Word(Enc("LoadNil"), 0, 0, 0), Word(Enc("Test"), 1, 1, 0)}
      [] j = 2 -> {Word(Enc("LoadNil"), 0, 0, 0), Word(Enc("Test"), 1, 2, 0),
                   Word(Enc("LoopJump"), 0, 254, 255)}
      [] j = 3 -> {Word(Enc("LoadNil"), 0, 0, 0), Word(Enc("LoopJump"), 0, 253, 255)}
      [] OTHER -> {Word(Enc("LoadNil"), 0, 0, 0), Word(Enc("Nop"), 0, 0, 0)}

\* The instruction words of class "tail" at code position j: a producer of
\* the tail state, a consumer, and a Move of the tail register.
TailWords(j) ==
    CASE j = 0 -> {Word(Enc("LoadNil"), 0, 0, 0)}
      [] j = 1 -> {Word(Enc("LoadNil"), 1, 0, 0)}
      [] j = 2 -> {Word(Enc("Call"), 1, 1, 0), Word(Enc("LoadVarargs"), 1, 0, 0),
                   Word(Enc("Call"), 1, 1, 2)}
      [] j = 3 -> {Word(Enc("Call"), 0, 0, 1), Word(Enc("Call"), 0, 0, 0),
                   Word(Enc("Return"), 0, 0, 0), Word(Enc("Call"), 0, 2, 3),
                   Word(Enc("Call"), 0, 1, 3), Word(Enc("Call"), 0, 1, 1)}
      [] OTHER -> {Word(Enc("Move"), 2, 1, 0), Word(Enc("LoadNil"), 0, 0, 0)}

\* The instruction words of class "closure" at code position j of prototype
\* i: prototype 0 is the child, prototype 1 the parent that closes over it.
ClosureWords(i, j) ==
    IF i = 0
    THEN CASE j = 0 -> {Word(Enc("GetUpvalue"), 0, 0, 0), Word(Enc("Return"), 0, 1, 0)}
           [] OTHER -> {Word(Enc("Return"), 0, 2, 0)}
    ELSE CASE j = 0 -> {Word(Enc("LoadNil"), 0, 0, 0), Word(Enc("LoadNil"), 1, 0, 0)}
           [] j = 1 -> {Word(Enc("Closure"), 1, 0, 0), Word(Enc("Test"), 2, 2, 0)}
           [] j = 2 -> {Word(Enc("Move"), 0, 0, 0), Word(Enc("Closure"), 0, 0, 0),
                        Word(Enc("Nop"), 0, 0, 0)}
           [] OTHER -> {Word(Enc("Call"), 0, 2, 1)}

\* The instruction words of class "split" at code position j of prototype i:
\* the child reads its upvalue; the parent declares a local, reads it,
\* assigns it again and then reads it, captures it or tests another register.
SplitWords(i, j) ==
    IF i = 0 THEN {Word(Enc("GetUpvalue"), 0, 0, 0)}
    ELSE CASE j = 0 -> {Word(Enc("LoadNil"), 0, 0, 0)}
           [] j = 1 -> {Word(Enc("Move"), 1, 0, 0)}
           [] j = 2 -> {Word(Enc("LoadNil"), 0, 0, 0)}
           [] j = 3 -> {Word(Enc("Move"), 2, 0, 0), Word(Enc("Closure"), 2, 0, 0),
                        Word(Enc("Test"), 3, 1, 0)}
           [] OTHER -> {Word(Enc("Move"), 0, 0, 0), Word(Enc("Move"), 2, 0, 0)}

\* What the input may hold at each place of the container.
Dom ==
    [version |-> For({"header"}, {V(0), V(1), V(2)}, V(1)),
     messages |-> {<< >>, <<101>>, <<101, 0, 114>>},
     stringCount |->
        IF prof = "header" THEN Counts(MaxStrings) \cup {MinusOne}
        ELSE IF prof = "consts" THEN Counts(MaxStrings)
        ELSE IF prof \in {"lift", "fringe"} THEN {V(1)} ELSE {V(0)},
     stringSize |-> For({"header"}, {V(0), V(1)}, V(1)),
     chars |-> {<< >>, <<97>>},
     protoCount |->
        IF prof \in {"header", "studio", "children"} THEN Counts(MaxProtos)
        ELSE IF prof = "lines" THEN {V(1), V(2)}
        ELSE IF prof \in Nested THEN {V(2)} ELSE {V(1)},
     maxRegCount |-> {V(2)},
     argCount |->
        IF prof = "lift" \/ (prof = "closure" /\ cnt.i = 0) THEN {V(0), V(1)}
        ELSE {V(0)},
     upvalCount |->
        IF prof = "children" \/ (prof = "closure" /\ cnt.i = 0) THEN {V(0), V(1)}
        ELSE IF prof = "split" /\ cnt.i = 0 THEN {V(1)}
        ELSE {V(0)},
     isVarArg |-> {V(0)},
     instrCount |->
        CASE prof \in {"studio", "lift"} -> Counts(MaxInstr)
          [] prof = "opcodes" -> {V(1), V(2)}
          [] prof = "children" -> {V(0), V(2)}
          [] prof \in {"consts", "lines"} -> {V(0), V(1)}
          [] prof = "fringe" -> {V(n) : n \in 3..(MaxInstr + 3)}
          [] prof = "tail" -> {V(n) : n \in 4..(MaxInstr + 3)}
          [] prof = "closure" ->
                IF cnt.i = 0 THEN {V(1), V(2)} ELSE {V(n) : n \in 3..(MaxInstr + 2)}
          [] prof = "split" -> IF cnt.i = 0 THEN {V(1)} ELSE {V(4), V(5)}
          [] OTHER -> {V(0)},
     instr |->
        CASE prof = "studio" ->
                {Word(Op("ClearStackFull"), 0, 0, 0), Word(Enc("Nop"), 0, 0, 0),
                 Word(Enc("LoadNil"), 0, 0, 0)}
          [] prof = "opcodes" ->
                IF cnt.j = 0 \/ cnt.studio THEN {Word(op, 0, 0, 0) : op \in Bytes}
                ELSE {Word(Enc("Return"), 0, 1, 0), Word(Enc("LoadConstLarge"), 0, 0, 0)}
          [] prof = "consts" -> {Word(Enc("LoadConst"), 0, 0, 0)}
          [] prof = "children" ->
                {Word(Enc("Closure"), 0, 0, 0), Word(Enc("Move"), 0, 0, 0)}
          [] prof = "lift" -> LiftWords
          [] prof = "fringe" -> FringeWords(cnt.j)
          [] prof = "tail" -> TailWords(cnt.j)
          [] prof = "closure" -> ClosureWords(cnt.i, cnt.j)
          [] prof = "split" -> SplitWords(cnt.i, cnt.j)
          [] OTHER -> {Word(Enc("LoadNil"), 0, 0, 0)},
     aux |-> For(Profiles \ Lifted, {Word(0, 0, 0, 0), Word(1, 0, 0, 0)},
                 Word(0, 0, 0, 0)),
     constCount |->
        IF prof = "consts" THEN Counts(MaxConsts)
        ELSE IF prof \in {"lift", "fringe"} THEN {V(1)} ELSE {V(0)},
     tag |-> For({"consts"}, {V(n) : n \in 0..6}, V(3)),
     bool |-> {V(1)},
     number |-> {<<0, 0, 0, 0, 0, 0, 69, 64>>},
     stringIndex |-> For({"consts"}, {V(0), V(1), V(2)}, V(1)),
     global |-> {GlobalWord(1, 0, 0, 0), GlobalWord(2, 0, 1, 0)},
     hashSize |-> {V(0), V(1)},
     hashItem |-> {V(0)},
     closureCount |->
        IF prof = "children" THEN {V(0), V(1)}
        ELSE IF prof \in Nested /\ cnt.i = 1 THEN {V(1)} ELSE {V(0)},
     childIndex |-> For(Profiles \ Lifted, {V(0), V(1), MinusOne}, V(0)),
     nameIndex |-> For({"header"}, {V(0), V(1), V(2)}, V(0)),
     lineInfoCount |->
        IF prof = "lines" THEN Counts(MaxLines)
        ELSE IF prof = "lift" THEN {V(0), V(2)}
        ELSE IF prof \in Lifted THEN {V(Len(p.code))} ELSE {V(0)},
     lineDelta |-> For({"lines"}, {V(1), MinusOne}, V(1)),
     trailing |-> For({"header"}, {V(0), V(1)}, V(0)),
     mainIndex |->
        CASE prof = "header" -> {V(0), V(1), MinusOne}
          [] prof \in {"children", "studio"} -> {V(0), V(1), V(2)}
          [] prof \in Nested -> {V(1)}
          [] OTHER -> {V(0)}]

(***************************************************************************)
(* Actions of the decoder.                                                 *)
(***************************************************************************)
At(label) == running /\ pc = label

Begin ==
    /\ At("start")
    /\ \E r \in read(1, Dom.version) :
         \E rest \in (IF r.ok /\ r.g = 0 /\ r.v[1] = 0 THEN Dom.messages ELSE {<< >>}) :
            Commit([r EXCEPT !.bytes = @ \o rest,
                             !.eof = @ \/ (r.ok /\ r.v[1] = 0)],
                   IF r.ok THEN AfterVersion(EnterOperator(Cur), r.v[1], r.g = 0, rest)
                   ELSE Crashed(EnterOperator(Cur)))

ReadStringCount ==
    /\ At("stringCount")
    /\ \E r \in readVarint(Dom.stringCount) :
         Commit(r, IF r.ok THEN AfterStringCount(Cur, r.v) ELSE Crashed(Cur))

ReadStringSize ==
    /\ At("stringSize")
    /\ \E r \in readVarint(Dom.stringSize) :
         Commit(r, IF r.ok THEN AfterStringSize(Cur, r.v) ELSE Crashed(Cur))

ReadString ==
    /\ At("string")
    /\ \E r \in readView(cnt.stringSize, Dom.chars) : Commit(r, AfterString(Cur, r.v))

ReadProtoCount ==
    /\ At("protoCount")
    /\ \E r \in readVarint(Dom.protoCount) :
         Commit(r, IF r.ok THEN AfterProtoCount(Cur, r.v) ELSE Crashed(Cur))

ReadHeaderByte ==
    /\ running
    /\ \E k \in 1..Len(HeaderFields) :
         /\ pc = HeaderFields[k]
         /\ \E r \in read(1, Dom[HeaderFields[k]]) :
              Commit(r, IF r.ok THEN AfterHeaderByte(Cur, r.v[1]) ELSE Crashed(Cur))

ReadInstrCount ==
    /\ At("instrCount")
    /\ \E r \in readVarint(Dom.instrCount) :
         Commit(r, IF r.ok THEN AfterInstrCount(Cur, r.v) ELSE Crashed(Cur))

ReadInstr ==
    /\ At("instr")
    /\ \E r \in read(4, Dom.instr) :
         Commit(r, IF r.ok THEN AfterInstr(Cur, r.v) ELSE Crashed(Cur))

ReadAux ==
    /\ At("aux")
    /\ \E r \in read(4, Dom.aux) :
         Commit(r, IF r.ok THEN AfterAux(Cur, r.v) ELSE Crashed(Cur))

ReadConstCount ==
    /\ At("constCount")
    /\ \E r \in readVarint(Dom.constCount) :
         Commit(r, IF r.ok THEN AfterConstCount(Cur, r.v) ELSE Crashed(Cur))

ReadConstTag ==
    /\ At("const")
    /\ \E r \in read(1, Dom.tag) :
         Commit(r, IF r.ok THEN AfterConstTag(Cur, r.v[1]) ELSE Crashed(Cur))

ReadConstBool ==
    /\ At("constBool")
    /\ \E r \in read(1, Dom.bool) :
         Commit(r, IF r.ok THEN AfterConstBool(Cur, r.v) ELSE Crashed(Cur))

ReadConstNumber ==
    /\ At("constNumber")
    /\ \E r \in read(8, Dom.number) :
         Commit(r, IF r.ok THEN AfterConstNumber(Cur, r.v) ELSE Crashed(Cur))

ReadConstString ==
    /\ At("constString")
    /\ \E r \in readVarint(Dom.stringIndex), survives \in BOOLEAN :
         Commit(r, IF r.ok THEN AfterConstString(Cur, r.v, survives) ELSE Crashed(Cur))

ReadConstGlobal ==
    /\ At("constGlobal")
    /\ \E r \in read(4, Dom.global), survives \in BOOLEAN :
         Commit(r, IF r.ok THEN AfterConstGlobal(Cur, r.v, survives) ELSE Crashed(Cur))

ReadConstHash ==
    /\ At("constHash")
    /\ \E r \in readVarint(Dom.hashSize), survives \in BOOLEAN :
         Commit(r, IF r.ok THEN AfterConstHash(Cur, r.v, survives) ELSE Crashed(Cur))

ReadConstHashItem ==
    /\ At("constHashItem")
    /\ \E r \in readVarint(Dom.hashItem), survives \in BOOLEAN :
         Commit(r, IF r.ok THEN AfterConstHashItem(Cur, r.v, survives) ELSE Crashed(Cur))

ReadClosureCount ==
    /\ At("closureCount")
    /\ \E r \in readVarint(Dom.closureCount) :
         Commit(r, IF r.ok THEN AfterClosureCount(Cur, r.v) ELSE Crashed(Cur))

ReadChild ==
    /\ At("child")
    /\ \E r \in readVarint(Dom.childIndex) :
         Commit(r, IF r.ok THEN AfterChild(Cur, r.v) ELSE Crashed(Cur))

ReadNameIndex ==
    /\ At("nameIndex")
    /\ \E r \in readVarint(Dom.nameIndex) :
         Commit(r, IF r.ok THEN AfterNameIndex(Cur, r.v) ELSE Crashed(Cur))

ReadLineInfoCount ==
    /\ At("lineInfoCount")
    /\ \E r \in readVarint(Dom.lineInfoCount) :
         Commit(r, IF r.ok THEN AfterLineInfoCount(Cur, r.v) ELSE Crashed(Cur))

ReadLineDelta ==
    /\ At("lineInfo")
    /\ \E r \in readVarint(Dom.lineDelta) :
         Commit(r, IF r.ok THEN AfterLineDelta(Cur, r.v) ELSE Crashed(Cur))

ReadTrailing ==
    /\ At("trailing")
    /\ \E r \in read(1, Dom.trailing) :
         Commit(r, IF r.ok THEN AfterTrailing(Cur, r.v) ELSE Crashed(Cur))

ReadMainIndex ==
    /\ At("mainIndex")
    /\ \E r \in readVarint(Dom.mainIndex) :
         Commit(r, IF r.ok THEN AfterMainIndex(Cur, r.v) ELSE Crashed(Cur))

InitCnt == [stringCount |-> 0, stringSize |-> 0, protoCount |-> 0, i |-> 0,
            studio |-> FALSE, instrCount |-> 0, j |-> 0,
            constCount |-> 0, hashSize |-> 0, k |-> 0, closureCount |-> 0,
            childIndex |-> << >>, lookup |-> Lookup("none", 0, "none"),
            lineInfoCount |-> 0, lastLine |-> 0, negativeLine |-> FALSE,
            mainProto |-> 0, root |-> << >>]

Init ==
    /\ prof \in Profiles
    /\ bytecode = << >>
    /\ pointer = 0
    /\ eof = FALSE
    /\ oob = 0
    /\ pc = "start"
    /\ status = "running"
    /\ err = ""
    /\ opConversionTable = << >>
    /\ flagged = FALSE
    /\ fired = FALSE
    /\ stringTable = << >>
    /\ protos = << >>
    /\ p = NewProto
    /\ cnt = InitCnt
    /\ frames = << >>
    /\ alloc = 0
    /\ nodes = 0
    /\ hist =
          [run |-> [in |-> << >>, out |-> << >>, inliners |-> << >>],
          loop |-> [at |-> -1, f |-> << >>, closes |-> FALSE, bodyStartIndex |-> 0,
                    condExpr |-> AstExprLeaf("null"), left |-> << >>],
          close |-> [at |-> -1, cfInfo |-> [codeStartIndex |-> 0, bodyStartIndex |-> 0,
                                            codeEndIndex |-> 0,
                                            local |-> [id |-> 0, functionDepth |-> 0],
                                            type |-> "Test"],
                     size |-> 0, innerBody |-> << >>, condExpr |-> AstExprLeaf("null"), after |-> 0]]
    /\ wild = FALSE
    /\ buff = << >>

\* A step that reads nothing.
NoRead == [bytes |-> << >>, adv |-> 0, eof |-> eof, g |-> 0]

LiftInstr ==
    /\ At("decompile")
    /\ Top(Cur).i < Len(ProtoOf(Cur).code)
    /\ \E lineSurvives, caseSurvives, fringeSurvives \in BOOLEAN :
         Commit(NoRead, Iteration(Cur, lineSurvives, caseSurvives, fringeSurvives))

LiftEnd ==
    /\ At("decompile")
    /\ Top(Cur).i >= Len(ProtoOf(Cur).code)
    /\ \E blockSurvives, fringeSurvives \in BOOLEAN :
         Commit(NoRead, ReturnBlock(Cur, blockSurvives, fringeSurvives))

Output ==
    /\ At("output")
    /\ \E survives \in BOOLEAN : Commit(NoRead, Orchestrate(Cur, survives))

Decode ==
    \/ Begin
    \/ ReadStringCount \/ ReadStringSize \/ ReadString
    \/ ReadProtoCount \/ ReadHeaderByte
    \/ ReadInstrCount \/ ReadInstr \/ ReadAux
    \/ ReadConstCount \/ ReadConstTag \/ ReadConstBool \/ ReadConstNumber
    \/ ReadConstString \/ ReadConstGlobal \/ ReadConstHash \/ ReadConstHashItem
    \/ ReadClosureCount \/ ReadChild \/ ReadNameIndex
    \/ ReadLineInfoCount \/ ReadLineDelta \/ ReadTrailing \/ ReadMainIndex

Lift == LiftInstr \/ LiftEnd

Next == Decode \/ Lift \/ Output

Spec == Init /\ [][Next]_vars
(***************************************************************************)
(* Properties.                                                             *)
(***************************************************************************)
\* Every instruction vector decoded so far: those of the table and that of
\* the prototype being decoded.
AllCode == {protos[k].code : k \in 1..Len(protos)} \cup {p.code}

\* C1: when decompile returns, the output is the advisory followed by the
\* source if a flag condition fired while decoding or lifting, and the
\* source alone if none fired.
C1_AdvisoryIffFired ==
    status = "returned" =>
        buff = (IF fired THEN <<"advisory">> ELSE << >>) \o <<"source">>

\* A run that returned after the lifter fired a flag condition.
C1_Witness ==
    /\ status = "returned"
    /\ fired
    /\ buff = <<"advisory", "source">>
    /\ Len(cnt.root) > 0

\* C2 as stated: a first byte above 1 ends in the version error, a first
\* byte 0 in an error whose message is exactly the bytes after the first;
\* nothing is decoded and nothing is written.
C2_VersionErrors ==
    (bytecode # << >> /\ bytecode[1] # 1 /\ oob = 0) =>
        /\ status = "threw"
        /\ bytecode[1] > 1 => err = "bytecode version mismatch"
        /\ bytecode[1] = 0 => err = Tail(bytecode)
        /\ stringTable = << >> /\ protos = << >> /\ p = NewProto
        /\ buff = << >>

\* C3: the table maps (227 * i) mod 256 to i for every opcode i, and the 69
\* keys are distinct.
C3_Permutation ==
    pc # "start" =>
        /\ \A i \in 0..(OPCODE_END - 1) :
              /\ (227 * i) % 256 \in DOMAIN opConversionTable
              /\ opConversionTable[(227 * i) % 256] = i
        /\ Cardinality(DOMAIN opConversionTable) = OPCODE_END

\* A decoded instruction whose byte 198 went through the table and came out
\* as LoadNil.
C3_Witness ==
    /\ pc # "start"
    /\ \E k \in 1..Len(p.code) :
          p.code[k].mapped /\ p.code[k].raw = 198 /\ p.code[k].op = Op("LoadNil")

\* The instruction vector of the first prototype of the module.
FirstCode == IF protos # << >> THEN protos[1].code ELSE p.code

\* C4 as stated: when the first word of the first prototype is a raw
\* ClearStackFull no word of any prototype is mapped; otherwise every
\* non-auxiliary word of every prototype is mapped.
C4_StudioPerModule ==
    Len(FirstCode) > 0 =>
        \A code \in AllCode : \A k \in 1..Len(code) :
            IF FirstCode[1].raw = Op("ClearStackFull") THEN ~code[k].mapped
            ELSE ~code[k].aux => code[k].mapped

\* The 16 two-word opcodes as the specification lists them.
ListedTwoWord ==
    {"GetGlobal", "SetGlobal", "GetGlobalConst", "GetTableIndexConstant",
     "SetTableIndexConstant", "Self", "Equal", "LesserOrEqual", "LesserThan",
     "NotEqual", "GreaterThan", "GreaterOrEqual", "NewTable", "SetList",
     "TForLoop", "LoadConstLarge"}

\* C5: a decoded instruction is followed by a raw auxiliary word exactly
\* when its opcode is one of the 16 listed (the word may still be about to
\* be read); after any other opcode the next word is an instruction.
C5_TwoWord ==
    \A code \in AllCode : \A k \in 1..Len(code) :
        ~code[k].aux =>
            IF OpName(code[k].op) \in ListedTwoWord
            THEN IF k < Len(code)
                 THEN /\ code[k + 1].aux
                      /\ ~code[k + 1].mapped
                      /\ code[k + 1].op = code[k + 1].raw
                 ELSE code = p.code /\ pc = "aux"
            ELSE /\ k < Len(code) => ~code[k + 1].aux
                 /\ ~(code = p.code /\ k = Len(code) /\ pc = "aux")

\* LoadConstLarge, mapped from its encoded byte, followed by its raw word.
C5_Witness ==
    \E k \in 1..(Len(p.code) - 1) :
        /\ p.code[k].mapped
        /\ p.code[k].op = Op("LoadConstLarge")
        /\ p.code[k + 1].aux
        /\ pc = "constCount"

\* C6 as stated: once a read has gone past the end of the input, decompile
\* has failed: no step finds it still running or returned.
C6_ReadsPastEndFail ==
    eof => status \in {"threw", "crashed"}

\* C7 as stated: a lookup of string-table index 0 resolves to "absent",
\* for a name and for a String constant.
C7_IndexZeroAbsent ==
    (cnt.lookup.site # "none" /\ cnt.lookup.index = 0) =>
        cnt.lookup.result = "absent"

\* C8: every child of the prototype at position k is at a position below k,
\* and a child index outside 0 .. k - 1 ends decoding with an error.
C8_ChildrenEarlier ==
    /\ \A k \in 1..Len(protos) : \A c \in 1..Len(protos[k].children) :
          protos[k].children[c] \in 0..(k - 2)
    /\ \A c \in 1..Len(p.children) : p.children[c] \in 0..(Len(protos) - 1)
    /\ (pc = "child" /\ cnt.childIndex # << >>
          /\ cnt.childIndex[1] \notin 0..(Len(protos) - 1))
       => status = "threw"

\* The second prototype took the first as its child, and a module with such
\* a reference decoded.
C8_Witness ==
    /\ pc \in {"decompile", "output", "done"}
    /\ Len(protos) >= 2
    /\ protos[2].children = <<0>>

\* C9: flagged starts false; a step never takes it from true to false, and
\* it is true after every step in which a flag condition has fired.
C9_Monotonic ==
    /\ ~flagged
    /\ [][(flagged => flagged') /\ (fired' => flagged')]_vars

\* The orchestrator is about to read a flag that the lifter set.
C9_Witness ==
    /\ pc = "output"
    /\ flagged
    /\ fired

\* C10 as stated: once the line info of a prototype is decoded, flagged is
\* set if the cumulative line was negative after any of its deltas.
C10_AnyPrefixNegative ==
    (cnt.negativeLine /\ pc # "lineInfo") => flagged

\* The condition of the conditional that closes cfInfo: `not local` for a
\* Test entry, `local` for a NotTest entry.
ConditionOf(cfInfo) ==
    IF cfInfo.type = "Test" THEN AstExprUnary("Not", AstExprLocal(cfInfo.local, FALSE))
    ELSE AstExprLocal(cfInfo.local, FALSE)

Innermost == hist.loop.f[Len(hist.loop.f)]

\* C12 as stated: when several fringe entries are open and the one opened
\* last has codeEndIndex = i, a LoopJump at index i closes that entry: the
\* loop takes its local as condition and its bodyStartIndex as start, the
\* entry is removed and the outer entries stay open.
C12_InnermostClosed ==
    (/\ hist.loop.at >= 0
     /\ Len(hist.loop.f) >= 2
     /\ Innermost.codeEndIndex = hist.loop.at)
    => /\ hist.loop.closes
       /\ hist.loop.condExpr = AstExprLocal(Innermost.local, FALSE)
       /\ hist.loop.bodyStartIndex = Innermost.bodyStartIndex
       /\ hist.loop.left = SubSeq(hist.loop.f, 1, Len(hist.loop.f) - 1)

\* C13 as stated: the entry that the loop pushes onto instrBodyMap for index
\* i is entry i, so that instrBodyMap[i + s] is the size recorded for index
\* i + s: when the loop is about to dispatch index i, instrBodyMap holds
\* exactly the entries of the indices 0 .. i - 1.
C13_MapIndexedByInstruction ==
    (running /\ pc = "decompile" /\ Top(Cur).i < Len(ProtoOf(Cur).code))
    => Len(Top(Cur).instrBodyMap) = Top(Cur).i

\* C14 as stated: the loop that a LoopJump emits has the tested local as its
\* condition only when it closes an entry whose codeStartIndex is i - 1, and
\* the constant true otherwise.
C14_LocalOnlyAfterAdjacentTest ==
    hist.loop.at >= 0 =>
        hist.loop.condExpr =
            IF hist.loop.closes /\ Head(hist.loop.f).codeStartIndex = hist.loop.at - 1
            THEN AstExprLocal(Head(hist.loop.f).local, FALSE)
            ELSE AstExprLeaf("bool")

\* The instruction that the loop is about to dispatch.
NextInstr == ProtoOf(Cur).code[Top(Cur).i + 1]

\* The loop dispatches an instruction of the innermost activation and goes on
\* in that activation.
Dispatches ==
    /\ running
    /\ pc = "decompile"
    /\ Top(Cur).i < Len(ProtoOf(Cur).code)
    /\ status' = "running"
    /\ pc' = "decompile"
    /\ Len(frames') = Len(frames)

\* A step that consumes the pending tail state: a Return with b = 0, or a
\* Call with b = 0 that does not itself produce a new tail state (c # 0).
ConsumesTail ==
    /\ Dispatches
    /\ Top(Cur).isTail
    /\ NextInstr.b = 0
    /\ \/ OpName(NextInstr.op) = "Return"
       \/ OpName(NextInstr.op) = "Call" /\ NextInstr.c # 0

\* C15 as stated: the step that consumes the pending tail state clears it, so
\* that no later Move is resolved against the consumed tail expression.
C15_ConsumingClears ==
    [][ConsumesTail => ~frames'[Len(frames')].isTail]_vars

\* The source registers that the case of instr reads through
\* findOrCreateLocal, leaving out a register that the same case has already
\* looked up as its destination.  Call and Return read theirs with at().
SourceRegs(instr, fr) ==
    LET op == OpName(instr.op)
    IN CASE op = "Move" ->
                IF fr.isTail /\ instr.b >= fr.tailBase THEN {} ELSE {instr.b} \ {instr.a}
         [] op \in {"SetGlobal", "SetUpvalue", "Test", "NotTest"} -> {instr.a}
         [] op = "GetTableIndex" -> {instr.b, instr.c} \ {instr.a}
         [] op = "SetTableIndex" -> {instr.a, instr.b, instr.c}
         [] op \in {"GetTableIndexConstant", "GetTableIndexByte", "Self", "Not",
                    "UnaryMinus", "Len"} -> {instr.b} \ {instr.a}
         [] op \in {"SetTableIndexConstant", "SetTableIndexByte"} -> {instr.a, instr.b}
         [] op \in {"Add", "Sub", "Mul", "Div", "Mod", "Pow"} -> {instr.b, instr.c}
         [] op \in {"AddByte", "SubByte", "MulByte", "DivByte", "ModByte", "PowByte"} ->
                {instr.b}
         [] op = "Concat" -> (instr.b..instr.c) \ {instr.a}
         [] OTHER -> {}

\* The instruction dispatched reads a source register that is unmapped, so
\* that the read creates its local.
ReadCreates ==
    /\ Dispatches
    /\ SourceRegs(NextInstr, Top(Cur)) \ DOMAIN Top(Cur).localStack # {}

\* C16 as stated: whenever an opcode reads a source register that is unmapped
\* at that moment, the lifter sets flagged; this holds for every opcode that
\* reads registers, SetGlobal, SetUpvalue, the SetTableIndex family and Self
\* included.
C16_ReadOfUnmappedFlags ==
    [][ReadCreates => flagged']_vars

\* The prototype that the Closure about to be dispatched closes over.
ClosureChild == ProtoOf(Cur).children[b_x(NextInstr) + 1]

\* The words after the Closure that are its capture pseudo-instructions.
CaptureWords ==
    SubSeq(ProtoOf(Cur).code, Top(Cur).i + 2,
           Top(Cur).i + 1 + protos[ClosureChild + 1].upvalCount)

\* The Closure case has gone through its captures and calls decompile(child).
EntersClosure ==
    /\ running
    /\ pc = "decompile"
    /\ Top(Cur).i < Len(ProtoOf(Cur).code)
    /\ OpName(NextInstr.op) = "Closure"
    /\ status' = "running"
    /\ Len(frames') = Len(frames) + 1

\* decompile(child) returns into the Closure case of its caller.
LeavesClosure ==
    /\ running
    /\ pc = "decompile"
    /\ Len(frames) >= 2
    /\ status' = "running"
    /\ Len(frames') = Len(frames) - 1

\* C17: a Closure at index i whose child has upvalCount n consumes exactly
\* the n following words as captures: when it calls decompile(child) the loop
\* index stands at i + n and one instrBodyMap entry was pushed, flagged is
\* set if one of the n words is neither Move nor GetUpvalue, and when the
\* child returns the loop resumes at i + n + 1, so that none of the n words
\* is dispatched as an instruction.
C17_CapturesConsumed ==
    [][/\ EntersClosure =>
            /\ frames'[Len(frames)].i =
                  Top(Cur).i + protos[ClosureChild + 1].upvalCount
            /\ Len(frames'[Len(frames)].instrBodyMap) = Len(Top(Cur).instrBodyMap) + 1
            /\ Len(frames'[Len(frames)].body) = Len(Top(Cur).body)
            /\ (\E k \in DOMAIN CaptureWords :
                    OpName(CaptureWords[k].op) \notin {"Move", "GetUpvalue"})
               => flagged'
       /\ LeavesClosure =>
            /\ frames'[Len(frames')].i = frames[Len(frames) - 1].i + 1
            /\ frames'[Len(frames')].instrBodyMap = frames[Len(frames) - 1].instrBodyMap
      ]_vars

\* The parent [LoadNil, Closure, Move] has closed over a child with one
\* upvalue: the Move was taken as the capture, the child was lifted, and the
\* loop of the parent stands past the capture with two statements in body.
C17_Witness ==
    /\ prof = "closure"
    /\ pc = "decompile"
    /\ Len(frames) = 1
    /\ frames[1].proto = 1
    /\ protos[1].upvalCount = 1
    /\ Len(protos[1].upvalues) = 1
    /\ frames[1].i = 3
    /\ Len(frames[1].instrBodyMap) = 2
    /\ Len(frames[1].body) = 2
    /\ ~flagged

\* C18 as stated: every local records the nesting depth of the prototype
\* whose activation created it: 1 in the main prototype and one more for
\* each Closure recursion, so that a local captured from an enclosing
\* prototype differs in depth from the locals of the capturing one.
C18_LocalsRecordDepth ==
    \A k \in 1..Len(frames) :
        \A r \in DOMAIN frames[k].localStack :
            frames[k].localStack[r].functionDepth = k

\* The statement with the identity of stat is still in the vector.
Kept(stats, stat) == \E m \in 1..Len(stats) : stats[m].id = stat.id

\* The single-variable declarations of the vector that the last optimize
\* pass examined, as positions.
Declarations ==
    {k \in 1..Len(hist.run.in) :
        hist.run.in[k].kind = "local" /\ Len(hist.run.in[k].vars) = 1}

\* The census of the vector that the last optimize pass examined counts one
\* reference of the local declared at position k, and that reference is not
\* an assignment to the local.
SingleReference(k) ==
    LET x == hist.run.in[k].vars[1]
        references == References(LocalCollector(hist.run.in), x)
    IN /\ Len(references) = 1
       /\ ~TargetsLocal(Node(hist.run.in, references[1]), x)

\* C19 as stated: after optimize, every single-variable declaration whose
\* local has exactly one reference, not an assignment to it, has been removed
\* and its single read replaced by the declared value, so that no read of
\* the local is left; a declaration whose local has no reference or several
\* remains.
C19_SingleReferenceInlined ==
    \A k \in Declarations :
        IF SingleReference(k)
        THEN /\ ~Kept(hist.run.out, hist.run.in[k])
             /\ References(LocalCollector(hist.run.out), hist.run.in[k].vars[1]) = << >>
        ELSE Kept(hist.run.out, hist.run.in[k])

\* The reads of local x that lie under the body of a function expression.
ReadsInFunction(stats, x) ==
    SelectSeq(LocalCollector(stats), LAMBDA ref : ref.local = x /\ ref.inFunction)

\* C20 as stated: the inlining of a single reference never replaces a read
\* that lies inside a function body, whichever statement the census
\* attributes it to: when the only read of a declared local lies inside a
\* function body, that read is still there after optimize.
C20_FunctionBodiesUntouched ==
    \A k \in Declarations :
        (SingleReference(k) /\ ReadsInFunction(hist.run.in, hist.run.in[k].vars[1]) # << >>)
        => ReadsInFunction(hist.run.out, hist.run.in[k].vars[1]) # << >>

\* Every AstExprLocal of local x under the statement, function bodies included.
ReadsUnder(stat, x) == References(LocalCollector(<<stat>>), x)

\* C21: when optimize has split an assignment to x at position k into a
\* declaration of newX, the declaration holds the values of the assignment,
\* and no statement after position k refers to x any more, at any depth.
C21_SplitRemapsLater ==
    (status = "running" /\ ~wild) =>
        \A n \in DOMAIN hist.run.inliners :
            LET inl == hist.run.inliners[n]
            IN /\ hist.run.in[inl.at].kind = "local"
               /\ hist.run.in[inl.at].vars = <<inl.replace.local>>
               /\ hist.run.in[inl.at].values = inl.values
               /\ \A m \in (inl.at + 1)..Len(hist.run.in) :
                     ReadsUnder(hist.run.in[m], inl.find) = << >>

\* The loop is about to dispatch a LoadVarargs with b >= 1 whose registers
\* a .. a+b-2 are all unmapped or all mapped, at an index that has a line.
VarargsUniform ==
    /\ running
    /\ pc = "decompile"
    /\ Top(Cur).i < Len(ProtoOf(Cur).code)
    /\ InRange(ProtoOf(Cur).lineInfo, Top(Cur).i)
    /\ OpName(NextInstr.op) = "LoadVarargs"
    /\ NextInstr.b >= 1
    /\ LET regs == NextInstr.a..(NextInstr.a + NextInstr.b - 2)
       IN \/ regs \cap DOMAIN Top(Cur).localStack = {}
          \/ regs \subseteq DOMAIN Top(Cur).localStack

\* C22 as stated: a LoadVarargs with b >= 1 over registers that are uniformly
\* unmapped or uniformly mapped (b = 1 with no register included) does not
\* fail: the lifter goes on, with one more statement in the prototype.
C22_UniformVarargsEmits ==
    [][VarargsUniform =>
          /\ status' = "running"
          /\ nodes' = nodes + 1]_vars

\* The loop dispatches a Call with an explicit argument count and goes on.
CallStep ==
    /\ Dispatches
    /\ OpName(NextInstr.op) = "Call"
    /\ NextInstr.b > 0

\* C23: after a Call (a, b, c) with b > 0 the function register a and every
\* argument register read have left the register map before the result
\* registers are bound (a result register among them holds a fresh local, one
\* outside the results is absent), the registers a .. a+c-2 are bound when
\* c > 1, and every other register keeps its mapping.
C23_CallRegisters ==
    [][CallStep =>
          LET a == NextInstr.a
              self == IF Top(Cur).self THEN 1 ELSE 0
              taken == {a} \cup ((a + 1 + self)..(a + NextInstr.b - 1))
              results == a..(a + NextInstr.c - 2)
              before == Top(Cur).localStack
              after == frames'[Len(frames')].localStack
          IN /\ results \subseteq DOMAIN after
             /\ (taken \ results) \cap DOMAIN after = {}
             /\ \A r \in taken \cap results :
                   /\ after[r].id >= alloc
                   /\ \A q \in DOMAIN before : after[r] # before[q]
             /\ \A r \in (DOMAIN before \cup DOMAIN after) \ taken :
                   \/ r \in DOMAIN before /\ r \in DOMAIN after /\ after[r] = before[r]
                   \/ r \in results \ DOMAIN before]_vars

\* A Call with b = 2 and c = 3 has been lifted: its statement declares two
\* locals from a call with one argument, and both result registers are mapped.
C23_Witness ==
    /\ running
    /\ prof = "tail"
    /\ pc = "decompile"
    /\ Len(frames) = 1
    /\ frames[1].body # << >>
    /\ LET stat == frames[1].body[Len(frames[1].body)]
       IN /\ stat.kind = "local"
          /\ Len(stat.vars) = 2
          /\ stat.values[1].e = "call"
          /\ Len(stat.values[1].args) = 1
          /\ {0, 1} \subseteq DOMAIN frames[1].localStack

\* C24 as stated: every inner loop of the lifter finishes, for all operand
\* values including 255, so the lifter never reaches a loop that has no end.
C24_LoopsFinish == status # "hung"

\* C25 as stated: a fringe entry opened by Test or NotTest at index s with
\* codeEndIndex e, s <= e < code length, is closed by the time the loop has
\* finished instruction e: when the loop stands at index i, no open entry of
\* that kind has e < i, so none is open when the prototype ends.
C25_EntriesClosedInTime ==
    (running /\ pc = "decompile" /\ ~wild) =>
        \A k \in DOMAIN Top(Cur).f :
            LET cfInfo == Top(Cur).f[k]
            IN (/\ cfInfo.codeStartIndex <= cfInfo.codeEndIndex
                /\ cfInfo.codeEndIndex < Len(ProtoOf(Cur).code))
               => cfInfo.codeEndIndex >= Top(Cur).i

\* C26 as stated: the word that the loop is about to dispatch is never the
\* extra word that the decoder appended after a two-word opcode (in a
\* prototype that has a line for every word, so that no line read is out of
\* range).
C26_AuxNeverDispatched ==
    (/\ running
     /\ pc = "decompile"
     /\ Top(Cur).i < Len(ProtoOf(Cur).code)
     /\ Len(ProtoOf(Cur).lineInfo) >= Len(ProtoOf(Cur).code))
    => ~NextInstr.aux

\* C27 as stated: at every point of the lift each open fringe entry has
\* bodyStartIndex <= body.size(), in every activation, so that no slice
\* starts past the end of body.
C27_EntriesWithinBody ==
    (running /\ ~wild) =>
        \A n \in DOMAIN frames :
            \A k \in DOMAIN frames[n].f :
                frames[n].f[k].bodyStartIndex <= Len(frames[n].body)

\* C28 as stated: when the instruction loop of the decoder has ended and
\* the constant section is about to be read, the code of the prototype holds
\* exactly instrCount words, so the constants start right after the
\* instrCount-th word.
C28_CountedWords ==
    (running /\ pc = "constCount") => Len(p.code) = cnt.instrCount

\* C29 as stated: while a prototype is being lifted it has exactly argCount
\* parameters, and when it is lifted through a Closure whose capture words
\* were all accepted, exactly upvalCount bound upvalues, also when the same
\* prototype is lifted a second time.
C29_FreshPerLift ==
    (running /\ pc = "decompile") =>
        \A n \in DOMAIN frames :
            LET q == protos[frames[n].proto + 1]
            IN /\ Len(q.args) = q.argCount
               /\ (n >= 2 /\ ~flagged) => Len(q.upvalues) = q.upvalCount

RECURSIVE ExprCalls(_)
RECURSIVE StatCalls(_)

\* Evaluating the expression performs a call.
ExprCalls(expr) ==
    CASE expr.e = "call" -> TRUE
      [] expr.e \in {"indexname", "unary"} -> ExprCalls(expr.expr)
      [] expr.e = "indexexpr" -> ExprCalls(expr.expr) \/ ExprCalls(expr.index)
      [] expr.e = "binary" -> ExprCalls(expr.left) \/ ExprCalls(expr.right)
      [] OTHER -> FALSE

\* Executing the statement may perform a call.
StatCalls(stat) ==
    CASE stat.kind = "local" -> \E n \in DOMAIN stat.values : ExprCalls(stat.values[n])
      [] stat.kind = "assign" ->
            \/ \E n \in DOMAIN stat.values : ExprCalls(stat.values[n])
            \/ \E n \in DOMAIN stat.vars : ExprCalls(stat.vars[n])
      [] stat.kind = "expr" -> ExprCalls(stat.expr)
      [] stat.kind = "return" -> \E n \in DOMAIN stat.list : ExprCalls(stat.list[n])
      [] stat.kind = "while" ->
            ExprCalls(stat.condition) \/ \E n \in DOMAIN stat.body : StatCalls(stat.body[n])
      [] stat.kind = "if" ->
            \/ ExprCalls(stat.condition)
            \/ \E n \in DOMAIN stat.thenbody : StatCalls(stat.thenbody[n])
      [] OTHER -> FALSE

\* The locals that the expression reads.
ReadsOf(expr) ==
    LET localInfo == LocalCollector(<<AstStatExpr(expr)>>)
    IN {localInfo[n].local : n \in DOMAIN localInfo}

\* C30 as stated: when optimize has removed the declaration at position k and
\* put its value in place of the single read of its local in statement m,
\* no statement between k and m contains a call if the value contains a
\* call, and none assigns to a local that the value reads: the relative
\* order of the side effects is as it was.
C30_InliningKeepsOrder ==
    (status = "running" /\ ~wild) =>
        \A k \in Declarations :
            LET x == hist.run.in[k].vars[1]
                value == hist.run.in[k].values[1]
            IN (/\ SingleReference(k)
                /\ ~Kept(hist.run.out, hist.run.in[k])
                /\ References(LocalCollector(hist.run.out), x) = << >>)
               => \A m \in (k + 1)..Len(hist.run.in) :
                     ReadsUnder(hist.run.in[m], x) # << >> =>
                        \A j \in (k + 1)..(m - 1) :
                            /\ ~(ExprCalls(value) /\ StatCalls(hist.run.in[j]))
                            /\ \A y \in ReadsOf(value) :
                                  ~TargetsLocal(hist.run.in[j], y)

====
